---------------------------- MODULE Spec2Model ----------------------------
(***************************************************************************)
(* npm-fuzzy: candidate selection, extract (top-K) and extractOne (best   *)
(* match), with the bounded MinHeap they use; the string scorers built on  *)
(* levenshteinDistance; and the LRUCache.                                   *)
(*                                                                         *)
(* Representation.                                                         *)
(*  - A score is an integer number of 1/ScoreUnit: 100 is 100 * ScoreUnit, *)
(*    and two scores differ by less than 0.001 iff their difference d      *)
(*    satisfies |d| * 1000 < ScoreUnit.                                    *)
(*  - A text is a non-empty sequence of letter ranks (<<1, 2>> is "ab");   *)
(*    localeCompare is the lexicographic comparison of such sequences.     *)
(*  - A choices array is a record [len, fill, at]: element i (0-based) is  *)
(*    at[i] when i is in DOMAIN at and fill otherwise, so that arrays of   *)
(*    100001 elements are values TLC can hold.                             *)
(*  - scorer is the map choice |-> outcome of scorer(query, choice): a     *)
(*    record [err, score], err = NoErr when the call returns score and the *)
(*    error thrown otherwise (identified by the text it is thrown for).    *)
(***************************************************************************)
EXTENDS Integers, Sequences, FiniteSets, TLC

\* ------------------------------------------------------------------ bounds
MaxLen == 3
MaxLimit == 3
ScoreUnit == 2000
MaxCalls == 2

\* -------------------------------------------------------- program constants
PERFECT == 100
CHUNKED_THRESHOLD == 8000
EXCELLENT_SCORE == 93
ONE_CHUNKED_THRESHOLD == 20000
VERY_LARGE == 100000
HUGE == 200000
LARGE_50K == 50000
SAMPLING_SCORE == 98
highScoreThreshold == 97
verifySamples == 100

Pct(p) == p * ScoreUnit
Abs(x) == IF x < 0 THEN -x ELSE x
Min(a, b) == IF a < b THEN a ELSE b
\* No error; an error is identified by a text (see Throws below)
NoErr == <<>>

\* ------------------------------------------------------------------- texts
RECURSIVE localeCompare(_, _)
localeCompare(a, b) ==
  IF a = <<>> /\ b = <<>> THEN 0
  ELSE IF a = <<>> THEN -1
  ELSE IF b = <<>> THEN 1
  ELSE IF Head(a) < Head(b) THEN -1
  ELSE IF Head(a) > Head(b) THEN 1
  ELSE localeCompare(Tail(a), Tail(b))

\* choices[i], 0-based
ChoiceAt(choices, i) ==
  IF i \in DOMAIN choices.at THEN choices.at[i] ELSE choices.fill

\* ------------------------------------------------------------- extractOne
\* The running best of extractOne: ret is set when the code returns (or
\* breaks out of its loop) at once, err when the scorer has thrown.
OneState(choice, score, ret, better, err) ==
  [bestChoice |-> choice, bestScore |-> score, ret |-> ret,
   foundBetter |-> better, err |-> err]

\* One loop body: score choices[idx], keep it if strictly better, and leave
\* on a perfect score.
considerOne(st, choices, scorer, idx) ==
  IF st.ret \/ st.err # NoErr THEN st
  ELSE LET choice == ChoiceAt(choices, idx)
           r == scorer[choice]
       IN IF r.err # NoErr THEN [st EXCEPT !.err = r.err]
          ELSE IF r.score > st.bestScore
               THEN OneState(choice, r.score, r.score = Pct(PERFECT), TRUE, NoErr)
               ELSE st

\* A counted loop for (let k = from; k < to; k++) whose body is considerOne
\* at index idxOf[k]. The iterations run in order of k; the range is split in
\* two only to keep the evaluation shallow.
forOne(st0, choices, scorer, idxOf, from, to) ==
  LET RECURSIVE scan(_, _, _)
      scan(st, lo, hi) ==
        IF lo >= hi \/ st.ret \/ st.err # NoErr THEN st
        ELSE IF hi = lo + 1 THEN considerOne(st, choices, scorer, idxOf[lo])
        ELSE LET mid == (lo + hi) \div 2
             IN scan(scan(st, lo, mid), mid, hi)
  IN scan(st0, from, to)

\* Mutant of scanOne: the loop stops one element short (i < hi - 1)
scanOneStopsShort(st, choices, scorer, lo, hi) ==
  forOne(st, choices, scorer, [i \in lo .. hi - 1 |-> i], lo, hi - 1)

\* for (let i = lo; i < hi; i++)
scanOne(st, choices, scorer, lo, hi) ==
  forOne(st, choices, scorer, [i \in lo .. hi - 1 |-> i], lo, hi)

\* for (let s = 0; s < additionalSamples; s++) at
\* idx = floor(((len - 1) * (s + 1)) / (additionalSamples + 1))
sampleEvenly(st, choices, scorer, additionalSamples) ==
  forOne(st, choices, scorer,
         [s \in 0 .. additionalSamples - 1 |->
            ((choices.len - 1) * (s + 1)) \div (additionalSamples + 1)],
         0, additionalSamples)

\* [0, 10%, 20%, 30%, 50%, 70%, 90%, len - 1].filter(idx > 0 && idx < len);
\* floor(len * 0.k) is (len * k) \div 10 (the lengths used are no multiples
\* of 10, where the floating-point product could round across an integer).
sampleIndices(len) ==
  SelectSeq(<<0, (len * 1) \div 10, (len * 2) \div 10, (len * 3) \div 10,
              (len * 5) \div 10, (len * 7) \div 10, (len * 9) \div 10, len - 1>>,
            LAMBDA idx : idx > 0 /\ idx < len)

\* for (const idx of sampleIndices)
sampleStrategic(st, choices, scorer, idxs) ==
  forOne(st, choices, scorer, [k \in 0 .. Len(idxs) - 1 |-> idxs[k + 1]], 0, Len(idxs))

\* Math.floor(Math.random() * len) is any index of 0 .. len-1. The loop body
\* reads choices[idx] only, so the draw is taken among the indexes set in
\* choices.at and enough others to reach one that reads choices.fill.
RandomIndexes(choices) ==
  LET k == Cardinality(DOMAIN choices.at)
  IN {i \in DOMAIN choices.at \cup 0 .. Min(k, choices.len - 1) :
        i >= 0 /\ i < choices.len}

\* The verification pass: the states the verifySamples random draws can
\* leave. Once a round of draws adds or removes no state, no later round
\* does.
RECURSIVE verifyPass(_, _, _, _)
verifyPass(S, choices, scorer, v) ==
  LET drawn == {considerOne(st, choices, scorer, idx) :
                  st \in S, idx \in RandomIndexes(choices)}
  IN IF v >= verifySamples \/ drawn = S THEN S
     ELSE verifyPass(drawn, choices, scorer, v + 1)

\* for (let s = 0; s < sampleCount; s++) at idx = processed + s * step, with
\* if (idx >= len) break: the later indexes are no smaller, so leaving the
\* loop there and skipping them are the same.
sampleRemaining(st0, choices, scorer, processed, step, sampleCount) ==
  LET RECURSIVE scan(_, _, _)
      scan(st, lo, hi) ==
        IF lo >= hi \/ st.ret \/ st.err # NoErr THEN st
        ELSE IF hi = lo + 1
             THEN IF processed + lo * step >= choices.len THEN st
                  ELSE considerOne(st, choices, scorer, processed + lo * step)
        ELSE LET mid == (lo + hi) \div 2
             IN scan(scan(st, lo, mid), mid, hi)
  IN scan(st0, 0, sampleCount)

\* for (let start = 1; start < len; start += chunkSize): one chunk, then the
\* early exit once processed > earlyExitThreshold and bestScore > 97.
\* processed > len * 0.1 is 10 * processed > len; > len * 0.15 is
\* 20 * processed > 3 * len.
RECURSIVE oneChunkLoop(_, _, _, _, _, _)
oneChunkLoop(st, choices, scorer, chunkSize, start, processed) ==
  LET len == choices.len
      end == Min(start + chunkSize, len)
      st1 == scanOne(st, choices, scorer, start, end)
      processed1 == processed + (end - start)
      pastThreshold == IF len > VERY_LARGE THEN 10 * processed1 > len
                       ELSE 20 * processed1 > 3 * len
      sampleCount == Min(200, (len - processed1) \div 50)
      step == IF sampleCount = 0 THEN 0 ELSE (len - processed1) \div sampleCount
  IN IF start >= len \/ st.ret \/ st.err # NoErr THEN st
     ELSE IF st1.ret \/ st1.err # NoErr THEN st1
     ELSE IF pastThreshold /\ st1.bestScore > Pct(highScoreThreshold)
          THEN [sampleRemaining(st1, choices, scorer, processed1, step, sampleCount)
                  EXCEPT !.ret = TRUE]
          ELSE oneChunkLoop(st1, choices, scorer, chunkSize, start + chunkSize, processed1)

\* What a call of extractOne gives back.
OneNull == [kind |-> "null", choice |-> <<>>, score |-> 0, err |-> NoErr]
OneRaised(e) == [kind |-> "raised", choice |-> <<>>, score |-> 0, err |-> e]
OneOk(choice, score) == [kind |-> "ok", choice |-> choice, score |-> score, err |-> NoErr]
OneOutcome(st) ==
  IF st.err # NoErr THEN OneRaised(st.err) ELSE OneOk(st.bestChoice, st.bestScore)

\* extractOneChunked: the set of results the call can return (one result
\* unless the verification pass draws its random indexes).
extractOneChunked(choices, scorer, initialChoice, initialScore) ==
  LET len == choices.len
      chunkSize == IF len > HUGE THEN 20000 ELSE IF len > VERY_LARGE THEN 15000 ELSE 10000
      additionalSamples == IF len > HUGE THEN 50 ELSE IF len > VERY_LARGE THEN 30
                           ELSE IF len > LARGE_50K THEN 20 ELSE 15
      st0 == OneState(initialChoice, initialScore, FALSE, FALSE, NoErr)
      st1 == IF len > ONE_CHUNKED_THRESHOLD
             THEN sampleEvenly(st0, choices, scorer, additionalSamples)
             ELSE st0
      st2 == IF len > ONE_CHUNKED_THRESHOLD
             THEN sampleStrategic(st1, choices, scorer, sampleIndices(len))
             ELSE st1
      verified == IF len > ONE_CHUNKED_THRESHOLD /\ ~st2.ret /\ st2.err = NoErr
                     /\ st2.bestScore > Pct(SAMPLING_SCORE) /\ len > VERY_LARGE
                  THEN {IF st.ret \/ st.err # NoErr \/ st.foundBetter THEN st
                        ELSE [st EXCEPT !.ret = TRUE] :
                          st \in verifyPass({[st2 EXCEPT !.foundBetter = FALSE]},
                                            choices, scorer, 0)}
                  ELSE {st2}
  IN {OneOutcome(oneChunkLoop(st, choices, scorer, chunkSize, 1, 1)) : st \in verified}

\* extractOne(query, choices, scorer): the set of results the call can return.
extractOne(choices, scorer) ==
  IF choices.len = 0 THEN {OneNull}
  ELSE LET firstChoice == ChoiceAt(choices, 0)
           r == scorer[firstChoice]
       IN IF r.err # NoErr THEN {OneRaised(r.err)}
          ELSE IF r.score = Pct(PERFECT) THEN {OneOk(firstChoice, r.score)}
          ELSE IF choices.len > ONE_CHUNKED_THRESHOLD
               THEN extractOneChunked(choices, scorer, firstChoice, r.score)
               ELSE {OneOutcome(scanOne(OneState(firstChoice, r.score, FALSE, FALSE, NoErr),
                                        choices, scorer, 1, choices.len))}

\* ------------------------------------------------------------------ MinHeap
\* An ExtractResult
Result(choice, score) == [choice |-> choice, score |-> score]

\* Mutant of getResultsCompare: the texts compared the other way round
\* (b.choice.localeCompare(a.choice))
getResultsCompareReversedTie(a, b) ==
  LET diff == b.score - a.score
  IN IF Abs(diff) * 1000 < ScoreUnit THEN localeCompare(b.choice, a.choice) ELSE diff

\* The comparator of MinHeap.getResults: b.score - a.score, or the order of
\* the texts when the scores differ by less than 0.001.
getResultsCompare(a, b) ==
  LET diff == b.score - a.score
  IN IF Abs(diff) * 1000 < ScoreUnit THEN localeCompare(a.choice, b.choice) ELSE diff

\* The same comparator, as written in extract's small tier.
smallTierCompare(a, b) ==
  LET diff == b.score - a.score
  IN IF Abs(diff) * 1000 < ScoreUnit THEN localeCompare(a.choice, b.choice) ELSE diff

\* The comparator function handed to a sort
compareWith(comparator, a, b) ==
  IF comparator = "getResults" THEN getResultsCompare(a, b) ELSE smallTierCompare(a, b)

\* Array.prototype.sort(comparator). The engine's merge / insertion sort leaves
\* every element next to elements it was compared with, so in its result
\* compare(x, y) <= 0 for each adjacent x, y. With a consistent comparator
\* that is the one sorted order; the comparators above are not transitive
\* (0.001 tolerance), the order is then implementation-defined, and the
\* model takes every order with that property.
ArraySort(items, comparator) ==
  LET RECURSIVE sortExtend(_, _)
      sortExtend(prefix, rest) ==
        IF rest = {} THEN {prefix}
        ELSE UNION {sortExtend(Append(prefix, items[j]), rest \ {j}) :
                      j \in {k \in rest : \/ prefix = <<>>
                                          \/ compareWith(comparator, prefix[Len(prefix)], items[k]) <= 0}}
  IN sortExtend(<<>>, DOMAIN items)

\* heap[index], 0-based, of a heap kept as a sequence
HeapAt(heap, index) == heap[index + 1]
HeapSwap(heap, i, j) ==
  [heap EXCEPT ![i + 1] = heap[j + 1], ![j + 1] = heap[i + 1]]

RECURSIVE bubbleUp(_, _)
bubbleUp(heap, index) ==
  IF index <= 0 THEN heap
  ELSE LET parent == (index - 1) \div 2
       IN IF HeapAt(heap, parent).score <= HeapAt(heap, index).score THEN heap
          ELSE bubbleUp(HeapSwap(heap, index, parent), parent)

\* bubbleDown that looks at the left child only
RECURSIVE bubbleDownLeftOnly(_, _)
bubbleDownLeftOnly(heap, index) ==
  LET left == 2 * index + 1
      smallest == IF left < Len(heap)
                     /\ HeapAt(heap, left).score < HeapAt(heap, index).score
                  THEN left ELSE index
  IN IF index >= Len(heap) \/ smallest = index THEN heap
     ELSE bubbleDownLeftOnly(HeapSwap(heap, index, smallest), smallest)

RECURSIVE bubbleDown(_, _)
bubbleDown(heap, index) ==
  LET left == 2 * index + 1
      right == 2 * index + 2
      afterLeft == IF left < Len(heap)
                      /\ HeapAt(heap, left).score < HeapAt(heap, index).score
                   THEN left ELSE index
      smallest == IF right < Len(heap)
                     /\ HeapAt(heap, right).score < HeapAt(heap, afterLeft).score
                  THEN right ELSE afterLeft
  IN IF index >= Len(heap) \/ smallest = index THEN heap
     ELSE bubbleDown(HeapSwap(heap, index, smallest), smallest)

\* Mutant of push: the heap is taken to be full one item early
\* (this.heap.length < this.size - 1)
pushFullEarly(heap, size, result) ==
  IF Len(heap) + 1 < size THEN bubbleUp(Append(heap, result), Len(heap))
  ELSE IF result.score > (IF heap = <<>> THEN 0 ELSE HeapAt(heap, 0).score)
       THEN bubbleDown(IF heap = <<>> THEN <<result>> ELSE [heap EXCEPT ![1] = result], 0)
       ELSE heap

\* MinHeap.push on a heap of capacity size
push(heap, size, result) ==
  IF Len(heap) < size THEN bubbleUp(Append(heap, result), Len(heap))
  ELSE IF result.score > (IF heap = <<>> THEN 0 ELSE HeapAt(heap, 0).score)
       THEN bubbleDown(IF heap = <<>> THEN <<result>> ELSE [heap EXCEPT ![1] = result], 0)
       ELSE heap

\* MinHeap.getResults: the orders the sort can return
getResults(heap) == ArraySort(heap, "getResults")

\* array.slice(0, limit)
Slice(items, limit) == SubSeq(items, 1, Min(limit, Len(items)))

\* ----------------------------------------------------------------- extract
\* What a call of extract gives back.
ExtractOk(items) == [kind |-> "ok", items |-> items, err |-> NoErr]
ExtractRaised(e) == [kind |-> "raised", items |-> <<>>, err |-> e]

\* The scan state of extract: the heap, the count of perfect matches, ret
\* set when the loop returns early, err when the scorer has thrown.
HeapState(heap, perfectMatches, ret, err) ==
  [heap |-> heap, perfectMatches |-> perfectMatches, ret |-> ret, err |-> err]

AllPerfect(items) == \A k \in DOMAIN items : items[k].score = Pct(PERFECT)

\* Mutant of scoreAll: a scorer error is caught and the candidate skipped
RECURSIVE scoreAllSwallows(_, _, _, _)
scoreAllSwallows(st, choices, scorer, i) ==
  IF i >= choices.len THEN st
  ELSE LET choice == ChoiceAt(choices, i)
           r == scorer[choice]
       IN IF r.err # NoErr THEN scoreAllSwallows(st, choices, scorer, i + 1)
          ELSE scoreAllSwallows(
                 [st EXCEPT !.heap = Append(st.heap, Result(choice, r.score))],
                 choices, scorer, i + 1)

\* Small tier: score every choice in order
RECURSIVE scoreAll(_, _, _, _)
scoreAll(st, choices, scorer, i) ==
  IF i >= choices.len \/ st.err # NoErr THEN st
  ELSE LET choice == ChoiceAt(choices, i)
           r == scorer[choice]
       IN IF r.err # NoErr THEN [st EXCEPT !.err = r.err]
          ELSE scoreAll([st EXCEPT !.heap = Append(st.heap, Result(choice, r.score))],
                        choices, scorer, i + 1)

\* The loop body of the medium tier. heapResults.every(score === 100) does
\* not depend on the order getResults returns.
mediumStep(st, choices, scorer, limit, i) ==
  IF st.ret \/ st.err # NoErr THEN st
  ELSE LET choice == ChoiceAt(choices, i)
           r == scorer[choice]
           pushed == push(st.heap, limit, Result(choice, r.score))
       IN IF r.err # NoErr THEN [st EXCEPT !.err = r.err]
          ELSE IF r.score = Pct(PERFECT)
               THEN HeapState(pushed, st.perfectMatches + 1,
                              st.perfectMatches + 1 >= limit /\ AllPerfect(pushed),
                              NoErr)
               ELSE [st EXCEPT !.heap = pushed]

\* The loop body of a chunk: as the medium tier's, with the length test
chunkStep(st, choices, scorer, limit, i) ==
  IF st.ret \/ st.err # NoErr THEN st
  ELSE LET choice == ChoiceAt(choices, i)
           r == scorer[choice]
           pushed == push(st.heap, limit, Result(choice, r.score))
       IN IF r.err # NoErr THEN [st EXCEPT !.err = r.err]
          ELSE IF r.score = Pct(PERFECT)
               THEN HeapState(pushed, st.perfectMatches + 1,
                              /\ st.perfectMatches + 1 >= limit
                              /\ Len(pushed) >= limit
                              /\ AllPerfect(pushed),
                              NoErr)
               ELSE [st EXCEPT !.heap = pushed]

\* The loop body of the confirmation chunks: score and push
sampleStep(st, choices, scorer, limit, i) ==
  IF st.err # NoErr THEN st
  ELSE LET choice == ChoiceAt(choices, i)
           r == scorer[choice]
       IN IF r.err # NoErr THEN [st EXCEPT !.err = r.err]
          ELSE [st EXCEPT !.heap = push(st.heap, limit, Result(choice, r.score))]

\* The loop body of the loop named by body
heapStep(body, st, choices, scorer, limit, i) ==
  IF body = "medium" THEN mediumStep(st, choices, scorer, limit, i)
  ELSE IF body = "chunk" THEN chunkStep(st, choices, scorer, limit, i)
  ELSE sampleStep(st, choices, scorer, limit, i)

\* for (let i = from; i < to; i++) with the loop body named: the iterations
\* run in index order; the range is split in two only to keep the evaluation
\* shallow.
scanHeap(st0, choices, scorer, limit, body, from, to) ==
  LET RECURSIVE scan(_, _, _)
      scan(st, lo, hi) ==
        IF lo >= hi \/ st.ret \/ st.err # NoErr THEN st
        ELSE IF hi = lo + 1 THEN heapStep(body, st, choices, scorer, limit, lo)
        ELSE LET mid == (lo + hi) \div 2
             IN scan(scan(st, lo, mid), mid, hi)
  IN scan(st0, from, to)

\* return heap.getResults().slice(0, limit), or the scorer's error
heapOutcomes(st, limit) ==
  IF st.err # NoErr THEN {ExtractRaised(st.err)}
  ELSE {ExtractOk(Slice(sorted, limit)) : sorted \in getResults(st.heap)}

\* for (let c = 0; c < sampleChunks; c++): the confirmation chunks
RECURSIVE sampleChunksLoop(_, _, _, _, _, _, _, _)
sampleChunksLoop(st, choices, scorer, limit, chunkSize, processed, sampleChunks, c) ==
  IF c >= sampleChunks \/ st.err # NoErr THEN st
  ELSE LET sampleStart == processed + c * chunkSize
           sampleEnd == Min(sampleStart + chunkSize, choices.len)
       IN sampleChunksLoop(
            scanHeap(st, choices, scorer, limit, "sample", sampleStart, sampleEnd),
            choices, scorer, limit, chunkSize, processed, sampleChunks, c + 1)

\* for (let start = 0; start < len; start += chunkSize): one chunk, then the
\* early exit once processed > len * 0.2 (5 * processed > len) and the
\* limit-th result of getResults scores above 93.
RECURSIVE chunkLoop(_, _, _, _, _, _, _)
chunkLoop(st, choices, scorer, limit, chunkSize, start, processed) ==
  LET len == choices.len
      end == Min(start + chunkSize, len)
      st1 == scanHeap(st, choices, scorer, limit, "chunk", start, end)
      processed1 == processed + (end - start)
      sampleChunks == Min(2, (len - processed1) \div chunkSize)
  IN IF start >= len THEN heapOutcomes(st, limit)
     ELSE IF st1.ret \/ st1.err # NoErr THEN heapOutcomes(st1, limit)
     ELSE IF 5 * processed1 > len
          THEN UNION {
                 IF Len(currentResults) >= limit
                    /\ currentResults[limit].score > Pct(EXCELLENT_SCORE)
                 THEN heapOutcomes(
                        sampleChunksLoop(st1, choices, scorer, limit, chunkSize,
                                         processed1, sampleChunks, 0), limit)
                 ELSE chunkLoop(st1, choices, scorer, limit, chunkSize,
                                start + chunkSize, processed1) :
                 currentResults \in getResults(st1.heap)}
          ELSE chunkLoop(st1, choices, scorer, limit, chunkSize,
                         start + chunkSize, processed1)

extractChunked(choices, scorer, limit) ==
  LET len == choices.len
      chunkSize == IF len > HUGE THEN 10000 ELSE IF len > VERY_LARGE THEN 7500
                   ELSE IF len > LARGE_50K THEN 5000 ELSE 3000
  IN chunkLoop(HeapState(<<>>, 0, FALSE, NoErr), choices, scorer, limit, chunkSize, 0, 0)

\* Mutant of extract: only a negative limit returns at once (limit < 0)
extractZeroLimitScans(choices, scorer, limitArg) ==
  LET len == choices.len
      limit == IF limitArg > len THEN len ELSE limitArg
      scored == scoreAll(HeapState(<<>>, 0, FALSE, NoErr), choices, scorer, 0)
  IN IF len = 0 THEN {ExtractOk(<<>>)}
     ELSE IF limitArg < 0 THEN {ExtractOk(<<>>)}
     ELSE IF len <= limit * 2
          THEN IF scored.err # NoErr THEN {ExtractRaised(scored.err)}
               ELSE {ExtractOk(Slice(sorted, limit)) :
                       sorted \in ArraySort(scored.heap, "smallTier")}
     ELSE IF len > CHUNKED_THRESHOLD THEN extractChunked(choices, scorer, limit)
     ELSE heapOutcomes(
            scanHeap(HeapState(<<>>, 0, FALSE, NoErr), choices, scorer, limit,
                     "medium", 0, len), limit)

\* extract(query, choices, scorer, limit): the set of results the call can
\* return (one result unless the sort's comparator is inconsistent).
extract(choices, scorer, limitArg) ==
  LET len == choices.len
      limit == IF limitArg > len THEN len ELSE limitArg
      scored == scoreAll(HeapState(<<>>, 0, FALSE, NoErr), choices, scorer, 0)
  IN IF len = 0 THEN {ExtractOk(<<>>)}
     ELSE IF limitArg <= 0 THEN {ExtractOk(<<>>)}
     ELSE IF len <= limit * 2
          THEN IF scored.err # NoErr THEN {ExtractRaised(scored.err)}
               ELSE {ExtractOk(Slice(sorted, limit)) :
                       sorted \in ArraySort(scored.heap, "smallTier")}
     ELSE IF len > CHUNKED_THRESHOLD THEN extractChunked(choices, scorer, limit)
     ELSE heapOutcomes(
            scanHeap(HeapState(<<>>, 0, FALSE, NoErr), choices, scorer, limit,
                     "medium", 0, len), limit)

\* ------------------------------------------------------------------ inputs
Texts == {<<1>>, <<1, 2>>, <<2>>}
Queries == {<<1>>}

Returns(score) == [err |-> NoErr, score |-> score]
\* scorer(query, t) throws; the error is identified by the text it was thrown for
Throws(t) == [err |-> t, score |-> 0]

Range(f) == {f[x] : x \in DOMAIN f}

\* The texts a choices array holds
TextsOf(choices) ==
  Range(choices.at) \cup
    (IF \E i \in 0 .. choices.len - 1 : i \notin DOMAIN choices.at
     THEN {choices.fill} ELSE {})

\* The scorers tried on an array: a score of scores, or (mayThrow) an error,
\* on each text of the array. On a text the array does not hold the scorer
\* is never called; it is set to throw there.
Scorers(choices, scores, mayThrow) ==
  {sc \in [Texts -> {Returns(v) : v \in scores} \cup {Throws(t) : t \in Texts}] :
     \A t \in Texts :
       /\ sc[t].err \in {NoErr, t}
       /\ t \notin TextsOf(choices) => sc[t] = Throws(t)
       /\ t \in TextsOf(choices) /\ ~mayThrow => sc[t].err = NoErr}

\* 0.0005 and 0.001 in score units, rounded up
HalfMilli == (ScoreUnit + 1999) \div 2000
Milli == (ScoreUnit + 999) \div 1000

\* Short arrays: 0 .. MaxLen texts, every element set in at. Their scores:
\* 50, 50.0005 and 50.001 (neighbours closer than 0.001, the outer two not)
\* and 100; the scorer may throw.
SmallScores == {Pct(50), Pct(50) + HalfMilli, Pct(50) + Milli, Pct(PERFECT)}
SmallChoices ==
  UNION {{[len |-> n, fill |-> <<1>>, at |-> f] : f \in [0 .. n - 1 -> Texts]} :
           n \in 0 .. MaxLen}

\* Medium arrays: 2 * MaxLimit + 1 texts (past the small tier for every
\* limit), any text at indexes 0, 1 and len - 1 and one text at the others.
\* Their scores: as above, and 101 (out of the conventional range).
MidLen == 2 * MaxLimit + 1
MidScores == SmallScores \cup {Pct(101)}
MidChoices ==
  {[len |-> MidLen, fill |-> t, at |-> f] :
     t \in Texts, f \in [{0, 1, MidLen - 1} -> Texts]}

\* Long arrays: FillText everywhere but NearText at index 0 and FarText (the
\* query) at the last index but one. FillText scores 50, NearText 50, 99 or
\* 100 or throws, FarText 99.5 or 100.
FillText == <<2>>
NearText == <<1, 2>>
FarText == <<1>>
LargeLens == {CHUNKED_THRESHOLD + 1, ONE_CHUNKED_THRESHOLD, ONE_CHUNKED_THRESHOLD + 1,
              VERY_LARGE + 1}
LargeChoices ==
  {[len |-> n, fill |-> FillText, at |-> (0 :> NearText) @@ ((n - 2) :> FarText)] :
     n \in LargeLens}
LargeMaxLimit == 2
LargeScorers ==
  {(FillText :> Returns(Pct(50))) @@ (NearText :> near) @@ (FarText :> Returns(far)) :
     near \in {Returns(Pct(50)), Returns(Pct(99)), Returns(Pct(PERFECT)), Throws(NearText)},
     far \in {Pct(PERFECT) - ScoreUnit \div 2, Pct(PERFECT)}}

\* ---------------------------------------------------------- string scorers
\* A string is a sequence of UTF-16 code units (<<97, 98>> is "ab"); a ratio
\* is an exact fraction [num, den] in lowest terms (the code computes the same
\* quotients in double precision, which keeps their order and their equality
\* for the lengths that occur here).
SPACE == 32
TAB == 9
NEWLINE == 10
DASH == 45
UNDERSCORE == 95

RECURSIVE GCD(_, _)
GCD(a, b) == IF b = 0 THEN a ELSE GCD(b, a % b)
Frac(n, d) == LET g == GCD(n, d) IN [num |-> n \div g, den |-> d \div g]
FracLess(x, y) == x.num * y.den < y.num * x.den
FracMax(x, y) == IF FracLess(x, y) THEN y ELSE x
\* The weight divides where it should multiply
FracTimesInverted(x, n, d) == Frac(x.num * d, x.den * n)
\* x * (n / d)
FracTimes(x, n, d) == Frac(x.num * n, x.den * d)
Hundred == Frac(PERFECT, 1)
Zero == Frac(0, 1)

\* An array element that was never assigned
Undefined == -1

\* Math.min(currJMinus1 + 1, prevJ + 1, prevJMinus1 + cost), or the error of
\* line 51 (the cell stays Undefined, and so does the result)
levenshteinCell(currJMinus1, prevJ, prevJMinus1, cost) ==
  IF currJMinus1 = Undefined \/ prevJ = Undefined \/ prevJMinus1 = Undefined
  THEN Undefined
  ELSE Min(Min(currJMinus1 + 1, prevJ + 1), prevJMinus1 + cost)

\* A substitution that replaces nothing costs 1 too
substitutionCostAlwaysOne(s1, s2, i, j) == 1

\* const cost = s1[i - 1] === s2[j - 1] ? 0 : 1
substitutionCost(s1, s2, i, j) == IF s1[i] = s2[j] THEN 0 ELSE 1

\* The inner loop over j of row i; row[j + 1] is the code's row[j]
RECURSIVE levenshteinInner(_, _, _, _, _, _)
levenshteinInner(currRow, prevRow, s1, s2, i, j) ==
  IF j > Len(s2) THEN currRow
  ELSE levenshteinInner(
         [currRow EXCEPT ![j + 1] =
            levenshteinCell(currRow[j], prevRow[j + 1], prevRow[j],
                            substitutionCost(s1, s2, i, j))],
         prevRow, s1, s2, i, j + 1)

\* The outer loop over i with the swap of the two rows; the result is
\* prevRow[len2] after the last swap
RECURSIVE levenshteinOuter(_, _, _, _, _)
levenshteinOuter(prevRow, currRow, s1, s2, i) ==
  IF i > Len(s1) THEN prevRow[Len(s2) + 1]
  ELSE levenshteinOuter(
         levenshteinInner([currRow EXCEPT ![1] = i], prevRow, s1, s2, i, 1),
         prevRow, s1, s2, i + 1)

\* levenshteinDistance(s1, s2); Undefined stands for the error
\* 'Array index out of bounds'
RECURSIVE levenshteinDistance(_, _)
levenshteinDistance(s1, s2) ==
  IF Len(s1) = 0 THEN Len(s2)
  ELSE IF Len(s2) = 0 THEN Len(s1)
  ELSE IF s1 = s2 THEN 0
  ELSE IF Len(s1) < Len(s2) THEN levenshteinDistance(s2, s1)
  ELSE levenshteinOuter([j \in 1 .. Len(s2) + 1 |-> j - 1],
                        [j \in 1 .. Len(s2) + 1 |-> Undefined], s1, s2, 1)

\* The return statements of levenshteinRatio once the distance is known
levenshteinRatioOfDistance(distance, maxLen) ==
  IF maxLen = 0 THEN Hundred
  ELSE IF distance = 0 THEN Hundred
  ELSE IF distance >= maxLen THEN Zero
  ELSE Frac((maxLen - distance) * 100, maxLen)

\* levenshteinRatio with the length of the first string for maxLen
levenshteinRatioByFirstLength(s1, s2) ==
  IF s1 = s2 THEN Hundred
  ELSE levenshteinRatioOfDistance(levenshteinDistance(s1, s2), Len(s1))

\* levenshteinRatio(s1, s2)
levenshteinRatio(s1, s2) ==
  IF s1 = s2 THEN Hundred
  ELSE levenshteinRatioOfDistance(levenshteinDistance(s1, s2),
                                  IF Len(s1) > Len(s2) THEN Len(s1) ELSE Len(s2))

\* longer.substring(i, i + windowSize), i counted from 0
substring(str, i, windowSize) == SubSeq(str, i + 1, i + windowSize)

\* longer.includes(shorter), longer.startsWith(shorter), longer.endsWith(shorter)
includes(longer, shorter) ==
  \E i \in 0 .. Len(longer) - Len(shorter) : substring(longer, i, Len(shorter)) = shorter
startsWith(longer, shorter) ==
  Len(shorter) <= Len(longer) /\ substring(longer, 0, Len(shorter)) = shorter
endsWith(longer, shorter) ==
  /\ Len(shorter) <= Len(longer)
  /\ substring(longer, Len(longer) - Len(shorter), Len(shorter)) = shorter

\* The window loop of partialRatio from offset i on, with its early exit
RECURSIVE partialRatioLoop(_, _, _, _)
partialRatioLoop(shorter, longer, i, bestRatio) ==
  IF i > Len(longer) - Len(shorter) THEN bestRatio
  ELSE LET ratio == levenshteinRatio(shorter, substring(longer, i, Len(shorter)))
           best == FracMax(bestRatio, ratio)
       IN IF best = Hundred THEN best
          ELSE partialRatioLoop(shorter, longer, i + 1, best)

\* The fast path answers 100 for a common prefix of one character
partialRatioLooseFastPath(s1, s2) ==
  LET shorter == IF Len(s1) <= Len(s2) THEN s1 ELSE s2
      longer == IF Len(s1) > Len(s2) THEN s1 ELSE s2
  IN IF Len(shorter) = 0 THEN Zero
     ELSE IF longer[1] = shorter[1] THEN Hundred
     ELSE partialRatioLoop(shorter, longer, 0, Zero)

\* partialRatio(s1, s2)
partialRatio(s1, s2) ==
  LET shorter == IF Len(s1) <= Len(s2) THEN s1 ELSE s2
      longer == IF Len(s1) > Len(s2) THEN s1 ELSE s2
  IN IF Len(shorter) = 0 THEN Zero
     ELSE IF Len(longer) = 0 THEN Zero
     ELSE IF includes(longer, shorter) THEN Hundred
     ELSE IF startsWith(longer, shorter) \/ endsWith(longer, shorter) THEN Hundred
     ELSE partialRatioLoop(shorter, longer, 0, Zero)

\* A tokenizer for which the dash is no delimiter
isDelimiterWithoutDash(code) ==
  code = SPACE \/ code = TAB \/ code = NEWLINE \/ code = UNDERSCORE

\* The delimiter test of tokenize on a code unit
isDelimiter(code) ==
  code = SPACE \/ code = TAB \/ code = NEWLINE \/ code = DASH \/ code = UNDERSCORE

\* String.prototype.toLowerCase, on the code units A-Z
toLowerCase(str) ==
  [k \in 1 .. Len(str) |-> IF str[k] \in 65 .. 90 THEN str[k] + 32 ELSE str[k]]

\* The loop of tokenize from index i on (i counted from 0) and its last push
RECURSIVE tokenizeLoop(_, _, _, _)
tokenizeLoop(str, i, tokens, tokenChars) ==
  IF i >= Len(str)
  THEN IF Len(tokenChars) > 0 THEN Append(tokens, toLowerCase(tokenChars)) ELSE tokens
  ELSE IF isDelimiter(str[i + 1])
       THEN IF Len(tokenChars) > 0
            THEN tokenizeLoop(str, i + 1, Append(tokens, toLowerCase(tokenChars)), <<>>)
            ELSE tokenizeLoop(str, i + 1, tokens, tokenChars)
       ELSE tokenizeLoop(str, i + 1, tokens, Append(tokenChars, str[i + 1]))

\* tokenize(str)
tokenize(str) == tokenizeLoop(str, 0, <<>>, <<>>)

\* t0 < t1 on strings: the comparison by code units, a proper prefix first
RECURSIVE stringLess(_, _)
stringLess(t0, t1) ==
  IF t1 = <<>> THEN FALSE
  ELSE IF t0 = <<>> THEN TRUE
  ELSE IF t0[1] # t1[1] THEN t0[1] < t1[1]
  ELSE stringLess(Tail(t0), Tail(t1))

\* tokens.join(' ')
RECURSIVE join(_)
join(tokens) ==
  IF tokens = <<>> THEN <<>>
  ELSE IF Len(tokens) = 1 THEN tokens[1]
  ELSE tokens[1] \o <<SPACE>> \o join(Tail(tokens))

\* tokens.slice().sort(): the tokens in ascending order of their code units
\* (equal tokens are the same string, so the order is unique)
RECURSIVE sortStrings(_)
sortStrings(tokens) ==
  IF tokens = <<>> THEN <<>>
  ELSE LET k == CHOOSE k \in DOMAIN tokens :
                  /\ \A m \in DOMAIN tokens : ~stringLess(tokens[m], tokens[k])
                  /\ \A m \in 1 .. k - 1 : tokens[m] # tokens[k]
       IN <<tokens[k]>> \o
          sortStrings([m \in 1 .. Len(tokens) - 1 |->
                         IF m < k THEN tokens[m] ELSE tokens[m + 1]])

\* sortTokens that joins the tokens in the order given
sortTokensUnsorted(tokens) == join(tokens)

\* sortTokens(tokens)
sortTokens(tokens) ==
  IF Len(tokens) <= 1 THEN join(tokens)
  ELSE IF Len(tokens) = 2
       THEN IF stringLess(tokens[1], tokens[2])
            THEN tokens[1] \o <<SPACE>> \o tokens[2]
            ELSE tokens[2] \o <<SPACE>> \o tokens[1]
       ELSE join(sortStrings(tokens))

\* set.has(token) on a set kept as the sequence of its elements in insertion
\* order
has(set, token) == \E k \in DOMAIN set : set[k] = token

\* A token set that keeps the repeated tokens
tokenSetKeepsDuplicates(tokens) == tokens

\* tokenSet(tokens): new Set(tokens)
RECURSIVE tokenSet(_)
tokenSet(tokens) ==
  IF tokens = <<>> THEN <<>>
  ELSE LET front == tokenSet(SubSeq(tokens, 1, Len(tokens) - 1))
           token == tokens[Len(tokens)]
       IN IF has(front, token) THEN front ELSE Append(front, token)

\* The elements of set1, in order, that set2 has (keep) or has not (~keep)
RECURSIVE splitSet(_, _, _)
splitSet(set1, set2, keep) ==
  IF set1 = <<>> THEN <<>>
  ELSE LET rest == splitSet(Tail(set1), set2, keep)
       IN IF has(set2, set1[1]) = keep THEN <<set1[1]>> \o rest ELSE rest

\* tokenSortRatio that scores 100 as soon as one side has no token
tokenSortRatioEmptyIsPerfect(s1, s2) ==
  LET tokens1 == tokenize(s1)
      tokens2 == tokenize(s2)
      sorted1 == sortTokens(tokens1)
      sorted2 == sortTokens(tokens2)
  IN IF Len(tokens1) = 0 \/ Len(tokens2) = 0 THEN Hundred
     ELSE IF sorted1 = sorted2 THEN Hundred
     ELSE levenshteinRatio(sorted1, sorted2)

\* tokenSortRatio(s1, s2)
tokenSortRatio(s1, s2) ==
  LET tokens1 == tokenize(s1)
      tokens2 == tokenize(s2)
      sorted1 == sortTokens(tokens1)
      sorted2 == sortTokens(tokens2)
  IN IF Len(tokens1) = 0 /\ Len(tokens2) = 0 THEN Hundred
     ELSE IF Len(tokens1) = 0 \/ Len(tokens2) = 0 THEN Zero
     ELSE IF sorted1 = sorted2 THEN Hundred
     ELSE levenshteinRatio(sorted1, sorted2)

\* tokenSetRatio that compares the two combined strings only
tokenSetRatioCombinedOnly(s1, s2) ==
  LET tokens1 == tokenize(s1)
      tokens2 == tokenize(s2)
      set1 == tokenSet(tokens1)
      set2 == tokenSet(tokens2)
      intersectionArr == splitSet(set1, set2, TRUE)
      only1Arr == splitSet(set1, set2, FALSE)
      only2Arr == splitSet(set2, set1, FALSE)
      combined1 == sortTokens(intersectionArr \o only1Arr)
      combined2 == sortTokens(intersectionArr \o only2Arr)
  IN IF Len(tokens1) = 0 /\ Len(tokens2) = 0 THEN Hundred
     ELSE IF Len(tokens1) = 0 \/ Len(tokens2) = 0 THEN Zero
     ELSE IF Len(intersectionArr) = 0 THEN Zero
     ELSE levenshteinRatio(combined1, combined2)

\* tokenSetRatio(s1, s2)
tokenSetRatio(s1, s2) ==
  LET tokens1 == tokenize(s1)
      tokens2 == tokenize(s2)
      set1 == tokenSet(tokens1)
      set2 == tokenSet(tokens2)
      intersectionArr == splitSet(set1, set2, TRUE)
      only1Arr == splitSet(set1, set2, FALSE)
      only2Arr == splitSet(set2, set1, FALSE)
      intersectionStr == sortTokens(intersectionArr)
      combined1 == sortTokens(intersectionArr \o only1Arr)
      combined2 == sortTokens(intersectionArr \o only2Arr)
      ratio1 == IF Len(intersectionStr) > 0
                THEN levenshteinRatio(intersectionStr, combined1) ELSE Zero
      ratio2 == IF Len(intersectionStr) > 0
                THEN levenshteinRatio(intersectionStr, combined2) ELSE Zero
      ratio3 == levenshteinRatio(combined1, combined2)
  IN IF Len(tokens1) = 0 /\ Len(tokens2) = 0 THEN Hundred
     ELSE IF Len(tokens1) = 0 \/ Len(tokens2) = 0 THEN Zero
     ELSE IF Len(intersectionArr) = 0 THEN Zero
     ELSE FracMax(FracMax(ratio1, ratio2), ratio3)

\* The test lenRatio <= 0.6 for the second branch
lenRatioUpTo06(len1, len2) ==
  LET lo == Min(len1, len2)
      hi == IF len1 > len2 THEN len1 ELSE len2
  IN hi > 0 /\ 5 * lo <= 3 * hi

\* lenRatio > 0.8 and lenRatio < 0.6 for lenRatio = shorter / longer length
\* (both lengths 0 give NaN, for which both tests are false)
lenRatioAbove08(len1, len2) ==
  LET lo == Min(len1, len2)
      hi == IF len1 > len2 THEN len1 ELSE len2
  IN hi > 0 /\ 5 * lo > 4 * hi
lenRatioBelow06(len1, len2) ==
  LET lo == Min(len1, len2)
      hi == IF len1 > len2 THEN len1 ELSE len2
  IN hi > 0 /\ 5 * lo < 3 * hi

\* weightedRatio(s1, s2)
weightedRatio(s1, s2) ==
  LET simpleRatio == levenshteinRatio(s1, s2)
      partial == partialRatio(s1, s2)
      tokenSort == tokenSortRatio(s1, s2)
      tokenSetR == tokenSetRatio(s1, s2)
  IN IF s1 = s2 THEN Hundred
     ELSE IF lenRatioAbove08(Len(s1), Len(s2))
          THEN IF simpleRatio = Hundred THEN Hundred
               ELSE IF tokenSort = Hundred THEN Hundred
               ELSE FracMax(FracMax(simpleRatio, tokenSort), tokenSetR)
     ELSE IF lenRatioBelow06(Len(s1), Len(s2))
          THEN IF partial = Hundred THEN Hundred
               ELSE FracMax(FracMax(partial, FracTimes(tokenSort, 19, 20)),
                            FracTimes(tokenSetR, 19, 20))
     ELSE IF simpleRatio = Hundred THEN Hundred
          ELSE IF partial = Hundred THEN Hundred
          ELSE FracMax(FracMax(FracMax(simpleRatio, partial), tokenSort), tokenSetR)

\* ----------------------------------------------------------------- LRUCache
\* A cache is a record [capacity, order, node, head, tail]: order is the
\* sequence of the keys of the Map in its iteration (insertion) order, node
\* maps each of these keys to its CacheNode [value, expires, prev, next], and
\* head, tail, prev and next hold the key of the node they refer to, or Null.
\* A key has at most one node that is reachable, so a key names its node.
\* expires is Undefined when the entry has no time to live.
Null == 0
NoNodes == [k \in {} |-> Null]

\* new LRUCache(capacity)
LRUCache(capacity) ==
  [capacity |-> capacity, order |-> <<>>, node |-> NoNodes, head |-> Null, tail |-> Null]

\* this.cache.has(key): this.cache.get(key) !== undefined
cacheHas(c, key) == key \in DOMAIN c.node

\* this.cache.delete(key) on the Map
mapDelete(c, key) ==
  [c EXCEPT !.order = SelectSeq(c.order, LAMBDA k : k # key),
            !.node = [k \in DOMAIN c.node \ {key} |-> c.node[k]]]

\* delete that leaves tail on the removed node
deleteKeepsTail(c, key) ==
  IF ~cacheHas(c, key) THEN c
  ELSE LET n == c.node[key]
           c1 == IF n.prev # Null
                 THEN [c EXCEPT !.node[n.prev].next = n.next]
                 ELSE [c EXCEPT !.head = n.next]
           c2 == IF n.next # Null
                 THEN [c1 EXCEPT !.node[n.next].prev = n.prev]
                 ELSE c1
       IN mapDelete(c2, key)

\* delete(key): the state after the call
delete(c, key) ==
  IF ~cacheHas(c, key) THEN c
  ELSE LET n == c.node[key]
           c1 == IF n.prev # Null
                 THEN [c EXCEPT !.node[n.prev].next = n.next]
                 ELSE [c EXCEPT !.head = n.next]
           c2 == IF n.next # Null
                 THEN [c1 EXCEPT !.node[n.next].prev = n.prev]
                 ELSE [c1 EXCEPT !.tail = n.prev]
       IN mapDelete(c2, key)

\* moveToFront that leaves the list as it is
moveToFrontKeepsPlace(c, key) == c

\* moveToFront(node) for the node of key
moveToFront(c, key) ==
  IF key = c.head THEN c
  ELSE LET n == c.node[key]
           c1 == IF n.prev # Null
                 THEN [c EXCEPT !.node[n.prev].next = n.next] ELSE c
           c2 == IF n.next # Null
                 THEN [c1 EXCEPT !.node[n.next].prev = n.prev] ELSE c1
           c3 == IF key = c2.tail THEN [c2 EXCEPT !.tail = n.prev] ELSE c2
           c4 == [c3 EXCEPT !.node[key].prev = Null, !.node[key].next = c3.head]
           c5 == IF c4.head # Null
                 THEN [c4 EXCEPT !.node[c4.head].prev = key] ELSE c4
       IN [c5 EXCEPT !.head = key]

\* get that does not look at the expiry
getIgnoresExpiry(c, key, now) ==
  IF ~cacheHas(c, key) THEN [value |-> Undefined, cache |-> c]
  ELSE [value |-> c.node[key].value, cache |-> moveToFront(c, key)]

\* get(key) at time now: the value returned (Undefined for undefined) and the
\* state after the call
get(c, key, now) ==
  IF ~cacheHas(c, key) THEN [value |-> Undefined, cache |-> c]
  ELSE IF c.node[key].expires # Undefined /\ c.node[key].expires < now
       THEN [value |-> Undefined, cache |-> delete(c, key)]
       ELSE [value |-> c.node[key].value, cache |-> moveToFront(c, key)]

\* ttl !== undefined ? Date.now() + ttl : undefined
expiresAt(ttl, now) == IF ttl # Undefined THEN now + ttl ELSE Undefined

\* The eviction test with > for >=
atCapacityStrict(c) == Len(c.order) > c.capacity /\ c.tail # Null

\* this.cache.size >= this.capacity && this.tail !== null
atCapacity(c) == Len(c.order) >= c.capacity /\ c.tail # Null

\* set(key, value, ttl) at time now: the state after the call
set(c, key, value, ttl, now) ==
  IF cacheHas(c, key)
  THEN moveToFront([c EXCEPT !.node[key].value = value,
                             !.node[key].expires = expiresAt(ttl, now)], key)
  ELSE LET c1 == IF atCapacity(c) THEN delete(c, c.tail) ELSE c
           newNode == [value |-> value, expires |-> expiresAt(ttl, now),
                       prev |-> Null, next |-> c1.head]
           c2 == IF c1.head # Null
                 THEN [c1 EXCEPT !.node[c1.head].prev = key] ELSE c1
           c3 == [c2 EXCEPT !.head = key]
           c4 == IF c3.tail = Null THEN [c3 EXCEPT !.tail = key] ELSE c3
       IN [c4 EXCEPT !.order = Append(c4.order, key),
                     !.node = [k \in DOMAIN c4.node \cup {key} |->
                                 IF k = key THEN newNode ELSE c4.node[k]]]

\* clear()
clear(c) == [c EXCEPT !.order = <<>>, !.node = NoNodes, !.head = Null, !.tail = Null]

\* size()
size(c) == Len(c.order)

\* The second loop of cleanupExpired: delete the keys of keysToDelete in order
RECURSIVE deleteAll(_, _)
deleteAll(c, keysToDelete) ==
  IF keysToDelete = <<>> THEN c
  ELSE deleteAll(delete(c, keysToDelete[1]), Tail(keysToDelete))

\* cleanupExpired() at time now: the state after the call
cleanupExpired(c, now) ==
  deleteAll(c, SelectSeq(c.order,
                         LAMBDA k : c.node[k].expires # Undefined
                                    /\ c.node[k].expires < now))

\* ---------------------------------------------------------- Cache decorator
\* An argument of the decorated method: a string (code units), a number (an
\* integer here) or a boolean
StringArg(s) == [type |-> "string", str |-> s, num |-> 0, bool |-> FALSE]
NumberArg(n) == [type |-> "number", str |-> <<>>, num |-> n, bool |-> FALSE]
BooleanArg(b) == [type |-> "boolean", str |-> <<>>, num |-> 0, bool |-> b]

\* The decimal digits of n >= 0, and String(n) for an integer n
RECURSIVE digitsOf(_)
digitsOf(n) == IF n < 10 THEN <<48 + n>> ELSE digitsOf(n \div 10) \o <<48 + (n % 10)>>
numberToString(n) == IF n < 0 THEN <<45>> \o digitsOf(0 - n) ELSE digitsOf(n)

\* String(arg) for a string, a number or a boolean
toStringOf(arg) ==
  IF arg.type = "string" THEN arg.str
  ELSE IF arg.type = "number" THEN numberToString(arg.num)
  ELSE IF arg.bool THEN <<116, 114, 117, 101>> ELSE <<102, 97, 108, 115, 101>>

\* JSON.stringify of one code unit inside a string: the quote, the backslash
\* and the control characters are escaped (the short escapes, else \u00xx)
hexDigit(d) == IF d < 10 THEN 48 + d ELSE 87 + d
jsonEscape(code) ==
  IF code = 34 THEN <<92, 34>>
  ELSE IF code = 92 THEN <<92, 92>>
  ELSE IF code = 8 THEN <<92, 98>>
  ELSE IF code = 9 THEN <<92, 116>>
  ELSE IF code = 10 THEN <<92, 110>>
  ELSE IF code = 12 THEN <<92, 102>>
  ELSE IF code = 13 THEN <<92, 114>>
  ELSE IF code < 32 THEN <<92, 117, 48, 48, hexDigit(code \div 16), hexDigit(code % 16)>>
  ELSE <<code>>
RECURSIVE jsonEscapeAll(_)
jsonEscapeAll(s) ==
  IF s = <<>> THEN <<>> ELSE jsonEscape(s[1]) \o jsonEscapeAll(Tail(s))

\* JSON.stringify of an argument, and of the array of arguments
jsonOf(arg) ==
  IF arg.type = "string" THEN <<34>> \o jsonEscapeAll(arg.str) \o <<34>>
  ELSE toStringOf(arg)
RECURSIVE jsonElements(_)
jsonElements(args) ==
  IF args = <<>> THEN <<>>
  ELSE IF Len(args) = 1 THEN jsonOf(args[1])
  ELSE jsonOf(args[1]) \o <<44>> \o jsonElements(Tail(args))
jsonStringify(args) == <<91>> \o jsonElements(args) \o <<93>>

\* createCacheKey(args)
createCacheKey(args) ==
  LET len == Len(args)
  IN IF len = 0 THEN <<>>
     ELSE IF len = 1 /\ args[1].type \in {"string", "number", "boolean"}
          THEN toStringOf(args[1])
     ELSE IF len = 2 /\ args[1].type = "string" /\ args[2].type = "string"
          THEN <<0>> \o args[1].str \o <<0>> \o args[2].str
     ELSE IF len = 2 /\ args[1].type \in {"string", "number"}
                     /\ args[2].type \in {"string", "number"}
          THEN <<0>> \o toStringOf(args[1]) \o <<0>> \o toStringOf(args[2])
     ELSE jsonStringify(args)

\* maxSize = 1000 when the option is not given
DefaultMaxSize == 1000

\* ----------------------------------------------------------- scorer builders
\* String.prototype.trim: white space and line terminators leave both ends
isWhiteSpace(code) ==
  code \in {9, 10, 11, 12, 13, 32, 160, 5760, 8232, 8233, 8239, 8287, 12288, 65279}
       \cup (8192 .. 8202)
RECURSIVE trimStart(_)
trimStart(str) ==
  IF str # <<>> /\ isWhiteSpace(str[1]) THEN trimStart(Tail(str)) ELSE str
RECURSIVE trimEnd(_)
trimEnd(str) ==
  IF str # <<>> /\ isWhiteSpace(str[Len(str)])
  THEN trimEnd(SubSeq(str, 1, Len(str) - 1)) ELSE str
trim(str) == trimEnd(trimStart(str))

\* defaultProcessor(str)
defaultProcessor(str) == trim(toLowerCase(str))

\* An option of ScorerConfig: given with a value, or left out
Given(v) == [given |-> TRUE, v |-> v]
NotGiven == [given |-> FALSE, v |-> 0]
\* { minScore = 0, maxScore = 100 } = config
DefaultMinScore == 0
DefaultMaxScore == 100
orDefault(option, default) == IF option.given THEN option.v ELSE default

\* processor(s): the default processor when the option is undefined, else
\* the processor given (str => str.toLowerCase() is the one tried)
applyProcessor(processor, str) ==
  IF processor = "undefined" THEN defaultProcessor(str) ELSE toLowerCase(str)

\* coreScorer(processed1, processed2) after the switch on algorithm
coreScorer(algorithm, s1, s2) ==
  IF algorithm = "simple" THEN levenshteinRatio(s1, s2)
  ELSE IF algorithm = "partial" THEN partialRatio(s1, s2)
  ELSE IF algorithm = "tokenSort" THEN tokenSortRatio(s1, s2)
  ELSE IF algorithm = "tokenSet" THEN tokenSetRatio(s1, s2)
  ELSE weightedRatio(s1, s2)

\* Math.min and Math.max on two numbers
mathMin(x, y) == IF FracLess(y, x) THEN y ELSE x
mathMax(x, y) == IF FracLess(x, y) THEN y ELSE x

\* The clamp without its lower bound
clampMaxOnly(minScore, maxScore, score) == mathMin(Frac(maxScore, 1), score)

\* Math.max(minScore, Math.min(maxScore, score))
clamp(minScore, maxScore, score) ==
  mathMax(Frac(minScore, 1), mathMin(Frac(maxScore, 1), score))

\* createScorer(config): the scorer returned, as the values it closes over
createScorer(config) ==
  [algorithm |-> IF config.algorithm = "undefined" THEN "weighted" ELSE config.algorithm,
   processor |-> config.processor,
   minScore |-> orDefault(config.minScore, DefaultMinScore),
   maxScore |-> orDefault(config.maxScore, DefaultMaxScore)]

\* The scorer returned by createScorer, called on (s1, s2)
callScorer(fn, s1, s2) ==
  LET processed1 == applyProcessor(fn.processor, s1)
      processed2 == applyProcessor(fn.processor, s2)
      score == coreScorer(fn.algorithm, processed1, processed2)
  IN clamp(fn.minScore, fn.maxScore, score)

\* new ScorerBuilder()
ScorerBuilder ==
  [algorithm |-> "weighted", processor |-> "undefined", minScore |-> 0, maxScore |-> 100]

\* build()
build(b) ==
  createScorer([algorithm |-> b.algorithm, processor |-> b.processor,
                minScore |-> Given(b.minScore), maxScore |-> Given(b.maxScore)])

\* ------------------------------------------------------------ state machine
\* Six machines share the module, each with its own specification: the
\* selection functions (Spec), the string scorers (SpecScorers), the LRUCache
\* (SpecCache), the MinHeap (SpecHeap), the Cache decorator (SpecDecorator)
\* and the scorer builders (SpecBuilder). A specification leaves the
\* variables of the other machines at their idle values.
VARIABLES query, choices, scorer, limit, pc, out, one, onePrev, calls
VARIABLES argA, argB, called, returned
VARIABLES lru, now, recency, last
VARIABLES minHeap, pushedItems
VARIABLES options, memo, clock, completed, storedBy, lastCall
VARIABLES builder, created, builtScore

vars == <<query, choices, scorer, limit, pc, out, one, onePrev, calls>>
scorerVars == <<argA, argB, called, returned>>
cacheVars == <<lru, now, recency, last>>
heapVars == <<minHeap, pushedItems>>
decoratorVars == <<options, memo, clock, completed, storedBy, lastCall>>
builderVars == <<builder, created, builtScore>>
allVars == <<vars, scorerVars, cacheVars, heapVars, decoratorVars, builderVars>>

ExtractNone == [kind |-> "none", items |-> <<>>, err |-> NoErr]
OneNone == [kind |-> "none", choice |-> <<>>, score |-> 0, err |-> NoErr]

ExtractIdle ==
  /\ query = <<>>
  /\ choices = [len |-> 0, fill |-> <<>>, at |-> <<>>]
  /\ scorer = <<>>
  /\ limit = 0
  /\ pc = "idle"
  /\ out = ExtractNone
  /\ one = OneNone
  /\ onePrev = OneNone
  /\ calls = 0

ScorersIdle ==
  /\ argA = <<>>
  /\ argB = <<>>
  /\ called = "idle"
  /\ returned = <<>>

CacheIdle ==
  /\ lru = LRUCache(0)
  /\ now = 0
  /\ recency = <<>>
  /\ last = [op |-> "idle", key |-> Null, removed |-> {}, value |-> Undefined]

HeapIdle ==
  /\ minHeap = [size |-> 0, heap |-> <<>>]
  /\ pushedItems = <<>>

DecoratorIdle ==
  /\ options = [maxSize |-> 0, ttl |-> Undefined]
  /\ memo = LRUCache(0)
  /\ clock = 0
  /\ completed = <<>>
  /\ storedBy = <<>>
  /\ lastCall = [op |-> "idle"]

BuilderIdle ==
  /\ builder = [state |-> "idle"]
  /\ created = [state |-> "idle"]
  /\ builtScore = [state |-> "idle"]

\* The variables of the machines added to the first three
OthersIdle == HeapIdle /\ DecoratorIdle /\ BuilderIdle
otherVars == <<heapVars, decoratorVars, builderVars>>

InitSmall ==
  /\ choices \in SmallChoices
  /\ scorer \in Scorers(choices, SmallScores, TRUE)
  /\ limit \in -1 .. MaxLimit

InitMid ==
  /\ choices \in MidChoices
  /\ scorer \in Scorers(choices, MidScores, FALSE)
  /\ limit \in 1 .. MaxLimit

InitLarge ==
  /\ choices \in LargeChoices
  /\ scorer \in LargeScorers
  /\ limit \in 1 .. LargeMaxLimit

Init ==
  /\ query \in Queries
  /\ (InitSmall \/ InitMid \/ InitLarge)
  /\ pc = "ready"
  /\ out = ExtractNone
  /\ one = OneNone
  /\ onePrev = OneNone
  /\ calls = 0
  /\ ScorersIdle
  /\ CacheIdle
  /\ OthersIdle

\* A call extract(query, choices, scorer, limit)
Extract ==
  /\ pc = "ready"
  /\ \E r \in extract(choices, scorer, limit) : out' = r
  /\ pc' = "extract"
  /\ UNCHANGED <<query, choices, scorer, limit, one, onePrev, calls>>
  /\ UNCHANGED <<scorerVars, cacheVars, otherVars>>

\* A call extractOne(query, choices, scorer); the call may be repeated on the
\* same arguments
ExtractOne ==
  /\ pc \in {"ready", "extractOne"}
  /\ calls < MaxCalls
  /\ \E r \in extractOne(choices, scorer) : one' = r
  /\ onePrev' = one
  /\ calls' = calls + 1
  /\ pc' = "extractOne"
  /\ UNCHANGED <<query, choices, scorer, limit, out>>
  /\ UNCHANGED <<scorerVars, cacheVars, otherVars>>

Next == Extract \/ ExtractOne

Spec == Init /\ [][Next]_allVars

\* ------------------------------------------- state machine: string scorers
\* The inputs of the string functions: every string over Alphabet of at most
\* MaxStrLen code units paired (in both orders) with a string of
\* FixedStrings, and every string over TokenizeAlphabet of at most
\* MaxTokenizeLen code units.
MaxStrLen == 4
MaxTokenizeLen == 3

Alphabet == {97, 98, SPACE}
TokenizeAlphabet == {97, 65, SPACE, TAB, NEWLINE, DASH, UNDERSCORE}
StringsOver(alphabet, maxLen) == UNION {[1 .. n -> alphabet] : n \in 0 .. maxLen}
\* "", "A", "ab", "b a", "A b", "ab ba", "a-b a", "b a a b", "a b ab"
FixedStrings ==
  {<<>>, <<65>>, <<97, 98>>, <<98, SPACE, 97>>, <<65, SPACE, 98>>,
   <<97, 98, SPACE, 98, 97>>, <<97, DASH, 98, SPACE, 97>>,
   <<98, SPACE, 97, SPACE, 97, SPACE, 98>>,
   <<97, SPACE, 98, SPACE, 97, 98>>}

InitPairs ==
  \E x \in StringsOver(Alphabet, MaxStrLen), y \in FixedStrings :
    \/ argA = x /\ argB = y
    \/ argA = y /\ argB = x

InitTokenize ==
  /\ argA \in StringsOver(TokenizeAlphabet, MaxTokenizeLen)
  /\ argB = <<>>

InitScorers ==
  /\ (InitPairs \/ InitTokenize)
  /\ called = "none"
  /\ returned = <<>>
  /\ ExtractIdle
  /\ CacheIdle
  /\ OthersIdle

\* One action per string function: a call f(argA, argB)
LevenshteinDistance ==
  /\ called = "none"
  /\ called' = "levenshteinDistance"
  /\ returned' = levenshteinDistance(argA, argB)
  /\ UNCHANGED <<argA, argB, vars, cacheVars, otherVars>>
LevenshteinRatio ==
  /\ called = "none"
  /\ called' = "levenshteinRatio"
  /\ returned' = levenshteinRatio(argA, argB)
  /\ UNCHANGED <<argA, argB, vars, cacheVars, otherVars>>
PartialRatio ==
  /\ called = "none"
  /\ called' = "partialRatio"
  /\ returned' = partialRatio(argA, argB)
  /\ UNCHANGED <<argA, argB, vars, cacheVars, otherVars>>
TokenSortRatio ==
  /\ called = "none"
  /\ called' = "tokenSortRatio"
  /\ returned' = tokenSortRatio(argA, argB)
  /\ UNCHANGED <<argA, argB, vars, cacheVars, otherVars>>
TokenSetRatio ==
  /\ called = "none"
  /\ called' = "tokenSetRatio"
  /\ returned' = tokenSetRatio(argA, argB)
  /\ UNCHANGED <<argA, argB, vars, cacheVars, otherVars>>
WeightedRatio ==
  /\ called = "none"
  /\ called' = "weightedRatio"
  /\ returned' = weightedRatio(argA, argB)
  /\ UNCHANGED <<argA, argB, vars, cacheVars, otherVars>>
Tokenize ==
  /\ called = "none"
  /\ called' = "tokenize"
  /\ returned' = tokenize(argA)
  /\ UNCHANGED <<argA, argB, vars, cacheVars, otherVars>>

NextScorers ==
  \/ LevenshteinDistance
  \/ LevenshteinRatio
  \/ PartialRatio
  \/ TokenSortRatio
  \/ TokenSetRatio
  \/ WeightedRatio
  \/ Tokenize

SpecScorers == InitScorers /\ [][NextScorers]_allVars

\* ------------------------------------------------- state machine: LRUCache
\* now is Date.now(). recency and last are history variables: recency lists
\* the keys of the cache from the most to the least recently used (by a get
\* that returned the value, or a set), and last records the latest call: its
\* name, its key, the keys it removed from the cache and, for a get, the value
\* it returned.
MaxCapacity == 2

\* One key more than the largest capacity, so that a full cache meets a new key
Keys == 1 .. MaxCapacity + 1
Values == {1, 2}
\* An entry set with ttl 0 at time 0 is expired at time 1
Ttls == {Undefined, 0}
Times == 0 .. 1

NoCall == [op |-> "none", key |-> Null, removed |-> {}, value |-> Undefined]

InitCache ==
  /\ \E capacity \in 0 .. MaxCapacity : lru = LRUCache(capacity)
  /\ now = 0
  /\ recency = <<>>
  /\ last = NoCall
  /\ ExtractIdle
  /\ ScorersIdle
  /\ OthersIdle

\* recency once the cache has become c by a call that used the keys of used
Recency(c, used) ==
  used \o SelectSeq(recency, LAMBDA k : cacheHas(c, k) /\ k \notin Range(used))

Called(op, key, c, value) ==
  [op |-> op, key |-> key, removed |-> DOMAIN lru.node \ DOMAIN c.node,
   value |-> value]

CacheSet ==
  \E key \in Keys, value \in Values, ttl \in Ttls :
    /\ lru' = set(lru, key, value, ttl, now)
    /\ recency' = Recency(lru', <<key>>)
    /\ last' = Called("set", key, lru', Undefined)
    /\ UNCHANGED <<now, vars, scorerVars, otherVars>>

CacheGet ==
  \E key \in Keys :
    /\ lru' = get(lru, key, now).cache
    /\ recency' = Recency(lru', IF get(lru, key, now).value # Undefined
                                THEN <<key>> ELSE <<>>)
    /\ last' = Called("get", key, lru', get(lru, key, now).value)
    /\ UNCHANGED <<now, vars, scorerVars, otherVars>>

CacheDelete ==
  \E key \in Keys :
    /\ lru' = delete(lru, key)
    /\ recency' = Recency(lru', <<>>)
    /\ last' = Called("delete", key, lru', Undefined)
    /\ UNCHANGED <<now, vars, scorerVars, otherVars>>

CacheClear ==
  /\ lru' = clear(lru)
  /\ recency' = Recency(lru', <<>>)
  /\ last' = Called("clear", Null, lru', Undefined)
  /\ UNCHANGED <<now, vars, scorerVars, otherVars>>

CacheCleanupExpired ==
  /\ lru' = cleanupExpired(lru, now)
  /\ recency' = Recency(lru', <<>>)
  /\ last' = Called("cleanupExpired", Null, lru', Undefined)
  /\ UNCHANGED <<now, vars, scorerVars, otherVars>>

\* Time passes between two calls
Tick ==
  /\ now + 1 \in Times
  /\ now' = now + 1
  /\ UNCHANGED <<lru, recency, last, vars, scorerVars, otherVars>>

NextCache ==
  \/ CacheSet
  \/ CacheGet
  \/ CacheDelete
  \/ CacheClear
  \/ CacheCleanupExpired
  \/ Tick

SpecCache == InitCache /\ [][NextCache]_allVars

\* ----------------------------------------------------------- MinHeap machine
\* A heap of capacity 1 .. MaxHeapSize and up to MaxPushes calls of push. The
\* item of the n-th call has the text <<n>>; pushedItems records the calls.
MaxHeapSize == 4
MaxPushes == 6
PushScores == {-1, 0, 1, 2}

\* new MinHeap(size)
InitHeap ==
  /\ \E k \in 1 .. MaxHeapSize : minHeap = [size |-> k, heap |-> <<>>]
  /\ pushedItems = <<>>
  /\ ExtractIdle /\ ScorersIdle /\ CacheIdle /\ DecoratorIdle /\ BuilderIdle

\* heap.push({choice, score})
HeapPush ==
  \E score \in PushScores :
    LET result == Result(<<Len(pushedItems) + 1>>, score)
    IN /\ Len(pushedItems) < MaxPushes
       /\ minHeap' = [minHeap EXCEPT !.heap = push(minHeap.heap, minHeap.size, result)]
       /\ pushedItems' = Append(pushedItems, result)
       /\ UNCHANGED <<vars, scorerVars, cacheVars, decoratorVars, builderVars>>

NextHeap == HeapPush

SpecHeap == InitHeap /\ [][NextHeap]_allVars

\* --------------------------------------------------- Cache decorator machine
\* One method decorated with Cache(options) and up to MaxDecoratedCalls calls
\* of it. The original method returns, at each invocation, any of
\* MethodResults (Undefined for undefined). completed records the argument
\* lists of the calls made, storedBy the call that wrote each cache entry.
MaxDecoratedCalls == 3
MethodResults == {Undefined, 1, 2}
\* [], [""], ["1"], [1], [true], ["true"], ["", "\x00"], ["\x00", ""],
\* ["1", 1], ["1", "1"], [true, 1]
ArgLists ==
  {<<>>,
   <<StringArg(<<>>)>>, <<StringArg(<<49>>)>>, <<NumberArg(1)>>,
   <<BooleanArg(TRUE)>>, <<StringArg(<<116, 114, 117, 101>>)>>,
   <<StringArg(<<>>), StringArg(<<0>>)>>, <<StringArg(<<0>>), StringArg(<<>>)>>,
   <<StringArg(<<49>>), NumberArg(1)>>, <<StringArg(<<49>>), StringArg(<<49>>)>>,
   <<BooleanArg(TRUE), NumberArg(1)>>}

\* The Map of the LRUCache is keyed by the key strings; the cache is modelled
\* with the number of the key string among the keys of ArgLists, which is the
\* same for two strings exactly when they are equal.
CacheKeys == {createCacheKey(args) : args \in ArgLists}
keyNumber(key) == 1 + Cardinality({k \in CacheKeys : stringLess(k, key)})

DecoratorTimes == 0 .. 1
NoDecoratedCall == [op |-> "none"]

\* Cache(options) applied to a method: new LRUCache(maxSize)
InitDecorator ==
  /\ \E maxSize \in {1, DefaultMaxSize}, ttl \in {Undefined, 0} :
       /\ options = [maxSize |-> maxSize, ttl |-> ttl]
       /\ memo = LRUCache(maxSize)
  /\ clock = 0
  /\ completed = <<>>
  /\ storedBy = <<>>
  /\ lastCall = NoDecoratedCall
  /\ ExtractIdle /\ ScorersIdle /\ CacheIdle /\ HeapIdle /\ BuilderIdle

\* storedBy once the cache has become c: the entries c still holds, and the
\* entry written by the call, if it wrote one
StoredBy(c, wrote, key, args, result) ==
  [k \in DOMAIN c.node |->
     IF wrote /\ k = key THEN [args |-> args, result |-> result] ELSE storedBy[k]]

\* A call of the decorated method: descriptor.value(...args)
DecoratedCall ==
  \E args \in ArgLists, result \in MethodResults :
    LET key == keyNumber(createCacheKey(args))
        got == get(memo, key, clock)
        cached == got.value
    IN /\ Len(completed) < MaxDecoratedCalls
       /\ IF cached # Undefined
          THEN /\ memo' = got.cache
               /\ storedBy' = StoredBy(memo', FALSE, key, args, cached)
               /\ lastCall' = [op |-> "call", args |-> args, result |-> cached,
                               invoked |-> FALSE]
          ELSE /\ memo' = set(got.cache, key, result, options.ttl, clock)
               /\ storedBy' = StoredBy(memo', TRUE, key, args, result)
               /\ lastCall' = [op |-> "call", args |-> args, result |-> result,
                               invoked |-> TRUE]
       /\ completed' = Append(completed, args)
       /\ UNCHANGED <<options, clock, vars, scorerVars, cacheVars, heapVars, builderVars>>

\* The cleanup interval: cache.cleanupExpired()
DecoratorCleanup ==
  /\ memo' = cleanupExpired(memo, clock)
  /\ memo' # memo
  /\ storedBy' = StoredBy(memo', FALSE, Null, <<>>, Undefined)
  /\ UNCHANGED <<options, clock, completed, lastCall>>
  /\ UNCHANGED <<vars, scorerVars, cacheVars, heapVars, builderVars>>

\* Time passes between two calls
DecoratorTick ==
  /\ clock + 1 \in DecoratorTimes
  /\ clock' = clock + 1
  /\ UNCHANGED <<options, memo, completed, storedBy, lastCall>>
  /\ UNCHANGED <<vars, scorerVars, cacheVars, heapVars, builderVars>>

NextDecorator ==
  \/ DecoratedCall
  \/ DecoratorCleanup
  \/ DecoratorTick

SpecDecorator == InitDecorator /\ [][NextDecorator]_allVars

\* ---------------------------------------------------- scorer builder machine
\* A ScorerBuilder set up by its with-methods, scorers made by build() or by
\* createScorer(config), and one call of the scorer made last.
Algorithms == {"weighted", "simple", "partial", "tokenSort", "tokenSet"}
Processors == {"undefined", "lower"}
MinScores == {0, 50}
MaxScores == {100, 40}
\* "", "a", "A ", "ab", "b a"
BuilderStrings == {<<>>, <<97>>, <<65, SPACE>>, <<97, 98>>, <<98, SPACE, 97>>}
Configs ==
  [algorithm : Algorithms \cup {"undefined"}, processor : Processors,
   minScore : {NotGiven} \cup {Given(v) : v \in MinScores},
   maxScore : {NotGiven} \cup {Given(v) : v \in MaxScores}]
NotCreated == [state |-> "none"]
NotCalled == [state |-> "none"]

InitBuilder ==
  /\ builder = [state |-> "new", fields |-> ScorerBuilder]
  /\ created = NotCreated
  /\ builtScore = NotCalled
  /\ ExtractIdle /\ ScorersIdle /\ CacheIdle /\ HeapIdle /\ DecoratorIdle

WithAlgorithm ==
  \E algorithm \in Algorithms :
    /\ builtScore = NotCalled
    /\ builder' = [state |-> "set", fields |-> [builder.fields EXCEPT !.algorithm = algorithm]]
    /\ UNCHANGED <<created, builtScore, vars, scorerVars, cacheVars, heapVars, decoratorVars>>

WithProcessor ==
  /\ builtScore = NotCalled
  /\ builder' = [state |-> "set", fields |-> [builder.fields EXCEPT !.processor = "lower"]]
  /\ UNCHANGED <<created, builtScore, vars, scorerVars, cacheVars, heapVars, decoratorVars>>

WithMinScore ==
  \E minScore \in MinScores :
    /\ builtScore = NotCalled
    /\ builder' = [state |-> "set", fields |-> [builder.fields EXCEPT !.minScore = minScore]]
    /\ UNCHANGED <<created, builtScore, vars, scorerVars, cacheVars, heapVars, decoratorVars>>

WithMaxScore ==
  \E maxScore \in MaxScores :
    /\ builtScore = NotCalled
    /\ builder' = [state |-> "set", fields |-> [builder.fields EXCEPT !.maxScore = maxScore]]
    /\ UNCHANGED <<created, builtScore, vars, scorerVars, cacheVars, heapVars, decoratorVars>>

Build ==
  /\ builtScore = NotCalled
  /\ created' = [state |-> "built", fn |-> build(builder.fields)]
  /\ UNCHANGED <<builder, builtScore, vars, scorerVars, cacheVars, heapVars, decoratorVars>>

\* createScorer(config) called directly
CreateScorer ==
  \E config \in Configs :
    /\ builtScore = NotCalled
    /\ builder.state = "new"
    /\ created' = [state |-> "created", fn |-> createScorer(config)]
    /\ UNCHANGED <<builder, builtScore, vars, scorerVars, cacheVars, heapVars, decoratorVars>>

\* The scorer made last is called
CallScorer ==
  \E s1 \in BuilderStrings, s2 \in BuilderStrings :
    /\ created # NotCreated
    /\ builtScore = NotCalled
    /\ builtScore' = [state |-> "called", s1 |-> s1, s2 |-> s2,
                      score |-> callScorer(created.fn, s1, s2)]
    /\ UNCHANGED <<builder, created, vars, scorerVars, cacheVars, heapVars, decoratorVars>>

NextBuilder ==
  \/ WithAlgorithm
  \/ WithProcessor
  \/ WithMinScore
  \/ WithMaxScore
  \/ Build
  \/ CreateScorer
  \/ CallScorer

SpecBuilder == InitBuilder /\ [][NextBuilder]_allVars


\* ------------------------------------------------------------------ claims
\* The scorer returns on every candidate / never above 100
NoThrow == \A t \in TextsOf(choices) : scorer[t].err = NoErr
ScoresOf == {scorer[t].score : t \in TextsOf(choices)}
AtMost100 == \A v \in ScoresOf : v <= Pct(PERFECT)
MaxOf(S) == CHOOSE m \in S : \A x \in S : x <= m
ExtractReturned == pc = "extract" /\ out.kind = "ok"
\* How many candidates score v, score above v, and how many results score v
CountAll(v) ==
  Cardinality({i \in 0 .. choices.len - 1 : scorer[ChoiceAt(choices, i)].score = v})
CountAbove(v) ==
  Cardinality({i \in 0 .. choices.len - 1 : scorer[ChoiceAt(choices, i)].score > v})
CountOut(v) == Cardinality({k \in DOMAIN out.items : out.items[k].score = v})
WithinTolerance(x, y) == Abs(x - y) * 1000 < ScoreUnit

\* C1: if a candidate equals the query (the scorer giving 100 for it and at
\* most 100 otherwise), extractOne returns score 100, whatever the number of
\* candidates and the position of that candidate.
C1_PerfectMatchReturned ==
  (/\ pc = "extractOne"
   /\ query \in TextsOf(choices)
   /\ NoThrow /\ AtMost100
   /\ scorer[query].score = Pct(PERFECT))
  => (one.kind = "ok" /\ one.score = Pct(PERFECT))

\* C2: if some candidate scores 100 and none above, the first result of
\* extract has score 100, in every tier.
C2_FirstResultPerfect ==
  (/\ pc = "extract"
   /\ limit > 0
   /\ NoThrow /\ AtMost100
   /\ Pct(PERFECT) \in ScoresOf)
  => (out.kind = "ok" /\ out.items # <<>> /\ out.items[1].score = Pct(PERFECT))

\* C3: for a non-empty array, a limit > 0 and a scorer that does not raise,
\* extract returns exactly min(limit, |choices|) results.
C3_ResultLength ==
  (pc = "extract" /\ choices.len > 0 /\ limit > 0 /\ NoThrow)
  => (out.kind = "ok" /\ Len(out.items) = Min(limit, choices.len))

C3_Witness ==
  /\ pc = "extract" /\ NoThrow
  /\ choices.len > CHUNKED_THRESHOLD
  /\ limit = 2 /\ Len(out.items) = 2
  /\ out.items[2].score > Pct(EXCELLENT_SCORE)

\* C4: the scores extract returns are non-increasing from first to last.
C4_ScoresNonIncreasing ==
  ExtractReturned =>
    \A k \in 1 .. Len(out.items) - 1 : out.items[k].score >= out.items[k + 1].score

C6_BestIsMaximum ==
  (/\ pc = "extractOne"
   /\ choices.len > 0 /\ choices.len <= ONE_CHUNKED_THRESHOLD
   /\ NoThrow /\ AtMost100)
  => (one.kind = "ok" /\ one.score = MaxOf(ScoresOf))

C6_Witness ==
  /\ pc = "extractOne" /\ NoThrow /\ AtMost100
  /\ choices.len = ONE_CHUNKED_THRESHOLD
  /\ scorer[ChoiceAt(choices, 0)].score > Pct(SAMPLING_SCORE)
  /\ one.score = Pct(PERFECT)

\* C7: for up to 8000 candidates, 0 < limit <= n and scores never above 100,
\* the multiset of scores extract returns is that of the limit largest
\* scores of the candidates.
C7_TopScores ==
  (/\ pc = "extract"
   /\ choices.len <= CHUNKED_THRESHOLD
   /\ limit > 0 /\ limit <= choices.len
   /\ NoThrow /\ AtMost100)
  => /\ out.kind = "ok"
     /\ \A v \in ScoresOf :
          CountOut(v) = Min(CountAll(v), IF limit > CountAbove(v)
                                          THEN limit - CountAbove(v) ELSE 0)

\* C8: two calls of extractOne on the same query, array and scorer return
\* the same result.
C8_SameResultTwice ==
  (pc = "extractOne" /\ calls >= 2) => one = onePrev

\* C9: extract returns the empty sequence when limit <= 0 or the array is
\* empty, and extractOne null on an empty array, whatever the scorer does
\* (a scorer that always raises included).
C9_InvalidParameters ==
  /\ (pc = "extract" /\ (limit <= 0 \/ choices.len = 0)) => out = ExtractOk(<<>>)
  /\ (pc = "extractOne" /\ choices.len = 0) => one = OneNull

C9_Witness ==
  /\ pc = "extract"
  /\ limit <= 0 /\ choices.len > 0
  /\ \A t \in TextsOf(choices) : scorer[t].err # NoErr
  /\ out = ExtractOk(<<>>)

\* C10: with a non-empty array and limit > 0, a scorer that raises (on the
\* first candidate, so on every path) makes extract and extractOne raise that
\* error; and neither raises anything but an error the scorer raised on a
\* candidate.
C10_ScorerErrorPropagates ==
  LET first == scorer[ChoiceAt(choices, 0)]
      thrown == {scorer[t].err : t \in TextsOf(choices)} \ {NoErr}
  IN /\ (pc = "extract" /\ choices.len > 0 /\ limit > 0 /\ first.err # NoErr)
          => out = ExtractRaised(first.err)
     /\ (pc = "extractOne" /\ choices.len > 0 /\ first.err # NoErr)
          => one = OneRaised(first.err)
     /\ (pc = "extract" /\ out.kind = "raised") => out.err \in thrown
     /\ (pc = "extractOne" /\ one.kind = "raised") => one.err \in thrown

C10_Witness ==
  /\ pc = "extract" /\ out.kind = "raised"
  /\ choices.len > CHUNKED_THRESHOLD
  /\ limit > 0

\* ------------------------------------------------- claims: string scorers
Min3(x, y, z) == Min(Min(x, y), z)
\* The reference edit distance: the least number of insertions, deletions and
\* substitutions of one character that turn a into b
RECURSIVE EditDistance(_, _)
EditDistance(a, b) ==
  IF a = <<>> THEN Len(b)
  ELSE IF b = <<>> THEN Len(a)
  ELSE Min3(EditDistance(Tail(a), b) + 1,
            EditDistance(a, Tail(b)) + 1,
            EditDistance(Tail(a), Tail(b)) + (IF a[1] = b[1] THEN 0 ELSE 1))
InRange(x) == ~FracLess(x, Zero) /\ ~FracLess(Hundred, x)
MaxFrac(S) == CHOOSE m \in S : \A x \in S : ~FracLess(m, x)
ShorterOf(a, b) == IF Len(a) <= Len(b) THEN a ELSE b
LongerOf(a, b) == IF Len(a) <= Len(b) THEN b ELSE a
\* The sequences that hold the elements of tokens in another order
Reordered(tokens) ==
  {[k \in DOMAIN tokens |-> tokens[p[k]]] : p \in Permutations(DOMAIN tokens)}
\* Strings whose tokens are those of str in another order
Reorderings(str) == {join(tokens) : tokens \in Reordered(tokenize(str))}
\* Strings whose tokens are those of str with one of them repeated
Repetitions(str) ==
  LET tokens == tokenize(str)
  IN {join(Append(tokens, tokens[k])) : k \in DOMAIN tokens}
     \cup {join(<<tokens[k]>> \o tokens) : k \in DOMAIN tokens}
\* The strings of S in ascending order
RECURSIVE Ascending(_)
Ascending(S) ==
  IF S = {} THEN <<>>
  ELSE LET least == CHOOSE t \in S : \A u \in S : ~stringLess(u, t)
       IN <<least>> \o Ascending(S \ {least})
\* The string of the distinct tokens of str in ascending order
TokenSetString(str) == join(Ascending(Range(tokenize(str))))
\* Strings with the token set of str
SameTokenSetVariants(str) ==
  Reorderings(str) \cup Repetitions(str) \cup {TokenSetString(str)}

\* C11: levenshteinDistance(a, b) is the reference edit distance of a and b,
\* whichever argument is longer; it is 0 for a = b and the length of the
\* other string when one is empty.
C11_DistanceIsEditDistance ==
  called = "levenshteinDistance" =>
    /\ returned = EditDistance(argA, argB)
    /\ (argA = argB => returned = 0)
    /\ (argA = <<>> => returned = Len(argB))
    /\ (argB = <<>> => returned = Len(argA))

C11_Witness ==
  /\ called = "levenshteinDistance"
  /\ 0 < Len(argA) /\ Len(argA) < Len(argB)
  /\ returned > Len(argB) - Len(argA)
  /\ returned < Len(argB)

\* C12: levenshteinRatio is symmetric, lies between 0 and 100, and is 100 on
\* equal strings (the empty string included).
C12_RatioSymmetricInRange ==
  called = "levenshteinRatio" =>
    /\ returned = levenshteinRatio(argB, argA)
    /\ InRange(returned)
    /\ (argA = argB => returned = Hundred)

C12_Witness ==
  /\ called = "levenshteinRatio"
  /\ 0 < Len(argA) /\ Len(argA) < Len(argB)
  /\ FracLess(Zero, returned) /\ FracLess(returned, Hundred)

\* C13: partialRatio, tokenSortRatio, tokenSetRatio and weightedRatio return
\* a value between 0 and 100.
C13_ScorersInRange ==
  called \in {"partialRatio", "tokenSortRatio", "tokenSetRatio", "weightedRatio"}
    => InRange(returned)

C13_Witness ==
  /\ called = "weightedRatio"
  /\ lenRatioBelow06(Len(argA), Len(argB))
  /\ tokenSortRatio(argA, argB) = Hundred
  /\ returned = Frac(95, 1)

\* The piecewise reference of weightedRatio on lenRatio = shorter / longer
WeightedReference(a, b) ==
  LET lenRatio == Frac(Len(ShorterOf(a, b)), Len(LongerOf(a, b)))
      ratio == levenshteinRatio(a, b)
      partial == partialRatio(a, b)
      tokenSort == tokenSortRatio(a, b)
      tokenSetR == tokenSetRatio(a, b)
  IN IF FracLess(Frac(4, 5), lenRatio)
     THEN MaxFrac({ratio, tokenSort, tokenSetR})
     ELSE IF FracLess(lenRatio, Frac(3, 5))
          THEN MaxFrac({partial, FracTimes(tokenSort, 19, 20),
                        FracTimes(tokenSetR, 19, 20)})
          ELSE MaxFrac({ratio, partial, tokenSort, tokenSetR})

\* C14: for a # b weightedRatio(a, b) is the piecewise reference (the
\* boundaries 0.6 and 0.8 in the middle branch), and weightedRatio(a, a) is
\* 100.
C14_WeightedPiecewise ==
  called = "weightedRatio" =>
    /\ (argA # argB => returned = WeightedReference(argA, argB))
    /\ (argA = argB => returned = Hundred)

C14_Witness ==
  /\ called = "weightedRatio"
  /\ 5 * Len(ShorterOf(argA, argB)) = 3 * Len(LongerOf(argA, argB))
  /\ Len(argA) > 0
  /\ returned # MaxFrac({partialRatio(argA, argB),
                         FracTimes(tokenSortRatio(argA, argB), 19, 20),
                         FracTimes(tokenSetRatio(argA, argB), 19, 20)})

\* The windows of the longer string that have the length of the shorter one
Windows(a, b) ==
  {substring(LongerOf(a, b), i, Len(ShorterOf(a, b))) :
     i \in 0 .. Len(LongerOf(a, b)) - Len(ShorterOf(a, b))}

\* C15: for non-empty a and b partialRatio(a, b) is the largest
\* levenshteinRatio of the shorter string with a window of the longer one,
\* and it is 100 iff the shorter string is a substring of the longer one;
\* partialRatio is 0 when a or b is empty.
C15_PartialIsBestWindow ==
  called = "partialRatio" =>
    IF argA = <<>> \/ argB = <<>> THEN returned = Zero
    ELSE /\ returned = MaxFrac({levenshteinRatio(ShorterOf(argA, argB), w) :
                                  w \in Windows(argA, argB)})
         /\ (returned = Hundred <=> ShorterOf(argA, argB) \in Windows(argA, argB))

C15_Witness ==
  /\ called = "partialRatio"
  /\ Len(argA) > Len(argB) + 1 /\ Len(argB) > 1
  /\ FracLess(Zero, returned) /\ FracLess(returned, Hundred)
  /\ returned # levenshteinRatio(argB, substring(argA, 0, Len(argB)))

\* C16: tokenSortRatio(a, b) does not change when the tokens of a or of b
\* are put in another order, and it is 100 when a and b have the same tokens
\* with the same multiplicities.
C16_TokenSortOrderFree ==
  called = "tokenSortRatio" =>
    /\ \A a \in Reorderings(argA), b \in Reorderings(argB) :
         tokenSortRatio(a, b) = returned
    /\ (tokenize(argB) \in Reordered(tokenize(argA)) => returned = Hundred)

C16_Witness ==
  /\ called = "tokenSortRatio"
  /\ Len(tokenize(argA)) >= 2
  /\ tokenize(argA) # tokenize(argB)
  /\ tokenize(argB) \in Reordered(tokenize(argA))
  /\ returned = Hundred

Delimiters == {32, 9, 10, 45, 95}
\* The first positions of the maximal runs of str without a delimiter
RunStarts(str) ==
  {i \in DOMAIN str : str[i] \notin Delimiters /\ (i = 1 \/ str[i - 1] \in Delimiters)}
\* The last position of the run that starts at i
RunEnd(str, i) ==
  CHOOSE j \in i .. Len(str) :
    /\ \A m \in i .. j : str[m] \notin Delimiters
    /\ (j = Len(str) \/ str[j + 1] \in Delimiters)
\* The maximal runs from left to right, lower-cased
Runs(str) ==
  [k \in 1 .. Cardinality(RunStarts(str)) |->
     LET i == CHOOSE i \in RunStarts(str) :
                Cardinality({m \in RunStarts(str) : m < i}) = k - 1
     IN [m \in 1 .. RunEnd(str, i) - i + 1 |->
           LET c == str[i + m - 1] IN IF c \in 65 .. 90 THEN c + 32 ELSE c]]

\* C18: tokenize(s) is the sequence, from left to right, of the maximal runs
\* of s without a delimiter, lower-cased: no token is empty or holds a
\* delimiter, and a string of delimiters only gives no token.
C18_TokenizeMaximalRuns ==
  called = "tokenize" =>
    /\ returned = Runs(argA)
    /\ \A k \in DOMAIN returned :
         returned[k] # <<>> /\ \A m \in DOMAIN returned[k] : returned[k][m] \notin Delimiters
    /\ ((\A i \in DOMAIN argA : argA[i] \in Delimiters) => returned = <<>>)

C18_Witness ==
  /\ called = "tokenize"
  /\ Len(returned) = 2
  /\ DASH \in Range(argA)
  /\ 65 \in Range(argA)
  /\ returned[1] = <<97>>

\* ------------------------------------------------------- claims: LRUCache
\* C19: size() never exceeds the capacity when the capacity is at least 1,
\* and never exceeds 1 when the capacity is 0.
C19_SizeWithinCapacity ==
  size(lru) <= (IF lru.capacity >= 1 THEN lru.capacity ELSE 1)

C19_Witness ==
  /\ last.op = "set"
  /\ last.removed # {}
  /\ lru.capacity = MaxCapacity
  /\ size(lru) = lru.capacity

\* A step that is a call set(key, ...)
SetStep(key) == last'.op = "set" /\ last'.key = key /\ now' = now
\* What set(key, ...) does to the entries of a cache that is full
EvictsLeastRecent(key) ==
  LET removed == DOMAIN lru.node \ DOMAIN lru'.node
  IN /\ Cardinality(removed) = 1
     /\ removed = {recency[Len(recency)]}
     /\ \A k \in DOMAIN lru.node \ removed :
          /\ cacheHas(lru', k)
          /\ lru'.node[k].value = lru.node[k].value
          /\ lru'.node[k].expires = lru.node[k].expires
          /\ (get(lru, k, now).value # Undefined
                => get(lru', k, now).value = lru.node[k].value)
KeepsAll(key) == \A k \in DOMAIN lru.node : cacheHas(lru', k)

\* C20 as stated: a set of an absent key on a cache that holds capacity
\* entries removes exactly the least recently used entry and keeps every
\* other entry with its value; a set of a present key removes nothing.
C20_EvictsLeastRecentAnyCapacity ==
  [][\A key \in Keys :
       SetStep(key) =>
         /\ (~cacheHas(lru, key) /\ size(lru) = lru.capacity) => EvictsLeastRecent(key)
         /\ cacheHas(lru, key) => KeepsAll(key)]_allVars

\* C20 for a capacity of at least 1: a set of an absent key on a cache that
\* holds capacity entries removes exactly the least recently used entry and
\* keeps every other entry with its value; a set of a present key removes
\* nothing.
C20_EvictsLeastRecent ==
  [][\A key \in Keys :
       SetStep(key) =>
         /\ (~cacheHas(lru, key) /\ size(lru) = lru.capacity /\ lru.capacity >= 1)
              => EvictsLeastRecent(key)
         /\ cacheHas(lru, key) => KeepsAll(key)]_allVars

C20_Witness ==
  /\ last.op = "set"
  /\ Cardinality(last.removed) = 1
  /\ size(lru) = lru.capacity
  /\ lru.capacity >= 2
  /\ \E k \in DOMAIN lru.node :
       lru.node[k].expires # Undefined /\ lru.node[k].expires < now

\* A step that is a call get(key)
GetStep(key) == last'.op = "get" /\ last'.key = key /\ now' = now
\* The expiry of the entry of key is written by a set of that key only
ExpiryInstalledBySet(key) ==
  (/\ cacheHas(lru', key)
   /\ (~cacheHas(lru, key) \/ lru'.node[key].expires # lru.node[key].expires))
  => /\ SetStep(key)
     /\ lru'.node[key].expires \in {expiresAt(ttl, now) : ttl \in Ttls}

\* C21: get(key) returns a value only for an entry whose expiry (written by
\* the most recent set of key) is absent or not earlier than the current
\* time, and then the value of that entry; for an entry whose expiry is
\* earlier than the current time get returns undefined and removes the
\* entry; an entry without expiry is returned at any time.
C21_GetHonoursExpiry ==
  [][\A key \in Keys :
       /\ ExpiryInstalledBySet(key)
       /\ GetStep(key) =>
            /\ last'.value # Undefined =>
                 /\ cacheHas(lru, key)
                 /\ \/ lru.node[key].expires = Undefined
                    \/ lru.node[key].expires >= now
                 /\ last'.value = lru.node[key].value
            /\ (/\ cacheHas(lru, key)
                /\ lru.node[key].expires # Undefined
                /\ lru.node[key].expires < now)
                 => (last'.value = Undefined /\ ~cacheHas(lru', key))
            /\ (cacheHas(lru, key) /\ lru.node[key].expires = Undefined)
                 => (last'.value = lru.node[key].value /\ cacheHas(lru', key))]_allVars

C21_Witness ==
  /\ last.op = "get"
  /\ last.value = Undefined
  /\ last.removed = {last.key}
  /\ now > 0

\* ---------------------------------------------------------------------------
\* C30
\* ---------------------------------------------------------------------------

\* The keys met by following next from key k, at most fuel of them; the walk
\* stops at null and at a key the map does not hold
RECURSIVE FollowNext(_, _, _)
FollowNext(c, k, fuel) ==
  IF k = Null \/ fuel = 0 THEN <<>>
  ELSE IF ~cacheHas(c, k) THEN <<k>>
  ELSE <<k>> \o FollowNext(c, c.node[k].next, fuel - 1)

\* The linked list of c and its map describe the same keys
ListAgreesWithMap(c) ==
  LET keys == DOMAIN c.node
      walk == FollowNext(c, c.head, Cardinality(keys) + 1)
  IN /\ Len(walk) = Cardinality(keys)
     /\ Range(walk) = keys
     /\ (walk # <<>> => walk[Len(walk)] = c.tail)
     /\ \A k \in keys :
          /\ c.node[k].next # Null =>
               cacheHas(c, c.node[k].next) /\ c.node[c.node[k].next].prev = k
          /\ c.node[k].prev # Null =>
               cacheHas(c, c.node[k].prev) /\ c.node[c.node[k].prev].next = k
     /\ (c.head # Null => cacheHas(c, c.head) /\ c.node[c.head].prev = Null)
     /\ (c.tail # Null => cacheHas(c, c.tail) /\ c.node[c.tail].next = Null)
     /\ (c.head = Null <=> keys = {})
     /\ (c.tail = Null <=> keys = {})
     /\ Range(c.order) = keys /\ Len(c.order) = Cardinality(keys)

BuiltInScorers ==
  {"levenshteinRatio", "partialRatio", "tokenSortRatio", "tokenSetRatio", "weightedRatio"}
TokenScorers == {"tokenSortRatio", "tokenSetRatio"}
\* Exactly one of the two arguments is the empty string
OneEmpty == (argA = <<>>) # (argB = <<>>)
\* The argument that is not empty, when exactly one is
NonEmptyArg == IF argA = <<>> THEN argB ELSE argA
OnlyDelimiters(str) == \A i \in DOMAIN str : str[i] \in Delimiters

\* C28 as stated: every built-in scorer returns 0 when exactly one of the two
\* strings is empty, whatever the other one holds.
C28_EmptyAgainstAnyString ==
  (called \in BuiltInScorers /\ OneEmpty) => returned = Zero

\* C28, amended: when exactly one of the two strings is empty, levenshteinRatio
\* and partialRatio return 0; tokenSortRatio, tokenSetRatio and weightedRatio
\* return 0 when the other string holds a character that is no delimiter; for
\* another string of delimiters only, tokenSortRatio and tokenSetRatio return
\* 100 and weightedRatio returns 95.
C28_EmptyAgainstTokens ==
  (called \in BuiltInScorers /\ OneEmpty) =>
    /\ (called \in {"levenshteinRatio", "partialRatio"} => returned = Zero)
    /\ (~OnlyDelimiters(NonEmptyArg) => returned = Zero)
    /\ (called \in TokenScorers /\ OnlyDelimiters(NonEmptyArg) => returned = Hundred)
    /\ (called = "weightedRatio" /\ OnlyDelimiters(NonEmptyArg) => returned = Frac(95, 1))

\* weightedRatio of the empty string and a string with a token returned 0
C28_Witness ==
  /\ called = "weightedRatio"
  /\ argA = <<>> /\ argB # <<>> /\ ~OnlyDelimiters(argB)
  /\ returned = Zero

\* ---------------------------------------------------------------------------
\* C29
\* ---------------------------------------------------------------------------

\* The set of tokens of str
TokensOf(str) == Range(tokenize(str))

SmallTierWould ==
  LET n == IF limit > choices.len THEN choices.len ELSE limit
      scored == scoreAll(HeapState(<<>>, 0, FALSE, NoErr), choices, scorer, 0)
  IN {Slice(sorted, n) : sorted \in ArraySort(scored.heap, "smallTier")}
MediumTier == choices.len > 2 * limit /\ choices.len <= CHUNKED_THRESHOLD

\* C25: for up to 8000 candidates extract returns the first limit entries of
\* all (candidate, score) pairs sorted by descending score, ties by ascending
\* text: a call served by the medium tier returns the sequence the small tier
\* would return on the same input, ties at the last score kept included.
C25_MediumAsSmall ==
  (pc = "extract" /\ limit > 0 /\ MediumTier /\ NoThrow) =>
    /\ out.kind = "ok"
    /\ out.items \in SmallTierWould

\* ---------------------------------------------------------------------------
\* C26
\* ---------------------------------------------------------------------------

\* The index at which the medium tier's loop, run from state st at index i,
\* returns through the perfect-match exit; Undefined when it runs to the end
RECURSIVE PerfectExitFrom(_, _)
PerfectExitFrom(st, i) ==
  IF i >= choices.len THEN Undefined
  ELSE LET st1 == mediumStep(st, choices, scorer, Min(limit, choices.len), i)
       IN IF st1.ret THEN i ELSE PerfectExitFrom(st1, i + 1)
PerfectExitIndex == PerfectExitFrom(HeapState(<<>>, 0, FALSE, NoErr), 0)

\* C26: when extract returns through the perfect-match early exit, no
\* candidate left unscored has a score above the scores returned, for any
\* scorer (scores above 100 included). Stated for the calls the medium tier
\* serves.
C26_NothingBetterUnscored ==
  (/\ pc = "extract" /\ limit > 0 /\ MediumTier /\ NoThrow
   /\ PerfectExitIndex # Undefined)
  => /\ out.kind = "ok"
     /\ \A j \in PerfectExitIndex + 1 .. choices.len - 1 :
          \A k \in DOMAIN out.items :
            scorer[ChoiceAt(choices, j)].score <= out.items[k].score

\* ---------------------------------------------------------------------------
\* C27
\* ---------------------------------------------------------------------------

\* How many items of the sequence items score v, and score above v
CountScore(items, v) == Cardinality({k \in DOMAIN items : items[k].score = v})
CountScoreAbove(items, v) == Cardinality({k \in DOMAIN items : items[k].score > v})
HeldCount == Min(minHeap.size, Len(pushedItems))

\* Every parent's score is at most its children's
HeapOrdered(heap) ==
  \A i \in 1 .. Len(heap) - 1 :
    HeapAt(heap, (i - 1) \div 2).score <= HeapAt(heap, i).score

\* The scores held are the HeldCount largest scores pushed, as multisets
HoldsLargest ==
  /\ Range(minHeap.heap) \subseteq Range(pushedItems)
  /\ \A v \in PushScores :
       CountScore(minHeap.heap, v) =
         Min(CountScore(pushedItems, v),
             IF HeldCount > CountScoreAbove(pushedItems, v)
             THEN HeldCount - CountScoreAbove(pushedItems, v) ELSE 0)

\* A push on a full heap admits the item only on a score strictly above the
\* minimum (index 0), which is then the item that leaves
AdmitsOnlyGreater ==
  (Len(pushedItems') = Len(pushedItems) + 1 /\ Len(minHeap.heap) = minHeap.size) =>
    LET result == pushedItems'[Len(pushedItems')]
        minimum == HeapAt(minHeap.heap, 0)
    IN IF result.score > minimum.score
       THEN /\ Range(minHeap'.heap) = (Range(minHeap.heap) \ {minimum}) \cup {result}
            /\ \A k \in DOMAIN minHeap.heap : minimum.score <= minHeap.heap[k].score
       ELSE minHeap'.heap = minHeap.heap

\* C27: after any sequence of pushes on a heap of capacity k >= 1 the heap
\* holds min(k, pushes) items, every parent's score is at most its children's,
\* and the scores held are the k largest pushed (as multisets); a full heap
\* admits an item only on a score strictly greater than the minimum, which is
\* the item evicted.
C27_HeapKeepsLargest ==
  /\ [](/\ Len(minHeap.heap) = HeldCount
        /\ HeapOrdered(minHeap.heap)
        /\ HoldsLargest)
  /\ [][AdmitsOnlyGreater]_allVars

\* A full heap of three or more items took the last push and evicted its
\* minimum, after having refused a push that tied with the minimum
C27_Witness ==
  /\ minHeap.size >= 3
  /\ Len(pushedItems) >= minHeap.size + 2
  /\ pushedItems[Len(pushedItems)] \in Range(minHeap.heap)
  /\ \E k \in 1 .. Len(pushedItems) - 1 :
       /\ pushedItems[k] \notin Range(minHeap.heap)
       /\ k > minHeap.size
       /\ \E j \in 1 .. k - 1 : pushedItems[j].score = pushedItems[k].score
  /\ HeapAt(minHeap.heap, 0).score > -1

\* ---------------------------------------------------------------------------
\* C22, C23
\* ---------------------------------------------------------------------------

\* The step is a call of the decorated method with the arguments args
DecoratedCallStep(args) ==
  /\ completed' = Append(completed, args)
  /\ lastCall'.op = "call"
\* The cache holds the entry an earlier call with the arguments args wrote,
\* and the entry has not expired
EntryLive(args) ==
  LET key == keyNumber(createCacheKey(args))
  IN /\ cacheHas(memo, key)
     /\ storedBy[key].args = args
     /\ (memo.node[key].expires = Undefined \/ memo.node[key].expires >= clock)

\* C22: after a call with some arguments has completed, a later call with the
\* same arguments, its entry neither evicted nor expired, returns the same
\* result and does not invoke the original method, whatever the result was.
C22_Memoized ==
  [][\A args \in ArgLists :
       (DecoratedCallStep(args) /\ EntryLive(args)) =>
         /\ lastCall'.result = storedBy[keyNumber(createCacheKey(args))].result
         /\ ~lastCall'.invoked]_allVars

\* C23: a call is answered from the cache only if an earlier call had an equal
\* argument list, and its key is the key of no other argument list called
\* before.
C23_SeparateArguments ==
  [][\A args \in ArgLists :
       DecoratedCallStep(args) =>
         /\ (~lastCall'.invoked => args \in Range(completed))
         /\ \A other \in Range(completed) :
              other # args => createCacheKey(other) # createCacheKey(args)]_allVars

\* ---------------------------------------------------------------------------
\* C24
\* ---------------------------------------------------------------------------

ScorerCalled == builtScore.state = "called"
AtLeast(x, bound) == ~FracLess(x, Frac(bound, 1))
AtMost(x, bound) == ~FracLess(Frac(bound, 1), x)

\* C24 as stated: every scorer made by createScorer or build() returns a
\* score between the configured minScore and maxScore.
C24_WithinConfiguredBounds ==
  ScorerCalled =>
    /\ AtLeast(builtScore.score, created.fn.minScore)
    /\ AtMost(builtScore.score, created.fn.maxScore)

\* C24, amended: with minScore <= maxScore the score returned is between
\* minScore and maxScore (0 and 100 when not configured); with minScore >
\* maxScore it is minScore.
C24_WithinOrderedBounds ==
  ScorerCalled =>
    /\ (created.fn.minScore <= created.fn.maxScore =>
          /\ AtLeast(builtScore.score, created.fn.minScore)
          /\ AtMost(builtScore.score, created.fn.maxScore))
    /\ (created.fn.minScore > created.fn.maxScore =>
          builtScore.score = Frac(created.fn.minScore, 1))

\* A built scorer with bounds 50 and 100 raised a score of 0 to 50
C24_Witness ==
  /\ ScorerCalled
  /\ created.state = "built"
  /\ created.fn.minScore = 50 /\ created.fn.maxScore = 100
  /\ callScorer([created.fn EXCEPT !.minScore = 0], builtScore.s1, builtScore.s2) = Zero
  /\ builtScore.score = Frac(50, 1)

=============================================================================
